---- MODULE Spec2Model ----
(***************************************************************************)
(* A model of the packet-builder crate: the IPv4 and TCP header codecs,    *)
(* their option lists, the packet assemblers and their checksums.          *)
(*                                                                         *)
(* Bytes are integers 0..255; a Vec<u8> or a slice is a sequence of bytes  *)
(* (1-based here, 0-based in the source: byte k of the source is element   *)
(* k+1).  Fixed-width integers keep their width: every u8/u16/u32          *)
(* operation is reduced modulo 2^w where the source can exceed the width;  *)
(* a u32 is carried as its two 16-bit halves.                              *)
(* An arithmetic overflow panics when the crate is built with overflow     *)
(* checks (the debug profile) and wraps otherwise (the release profile);   *)
(* overflow_checks is the profile of the build.                            *)
(***************************************************************************)
EXTENDS Integers, Sequences, FiniteSets, TLC

VARIABLES
    overflow_checks,  \* TRUE: debug profile (overflow panics), FALSE: release (wraps)
    ip,               \* the Ipv4Packet: [header, options, payload]
    ip_ret,           \* outcome of the last call on ip: [op, kind, val, pre, args]
    tcp,              \* the TcpPacket: [header, options, payload]
    tcp_ret,          \* outcome of the last call on tcp: [op, kind, val, pre, args]
    codec             \* a header codec under test: [type, step, h, bytes, dec]

vars == <<overflow_checks, ip, ip_ret, tcp, tcp_ret, codec>>

(***************************************************************************)
(* Bounds of the model.                                                    *)
(***************************************************************************)
\* option lists of every content are built up to this length
MaxMixed == 5
\* TCP option lists of every content are built up to this length
TcpMixed == 2
\* options of every kind added after a long run
MaxTail == 2
\* a long run of NoOperation: 250 words, the last word count 5 + W fits in u8
IpRun == 1000
\* a long run of MaximumSegmentSize: 10 words, the last data offset that fits 4 bits
TcpRun == 10

\* bytes a caller pushes after the 14 header bytes
MaxEthernetPayload == 3

\* options lists whose padded length is the last to fit 8 bits of words
Ipv4OptionsRun == 1020

TcpOptionsRun == 255

\* options in an IPv4 list that is encoded and decoded again
MaxIpv4RoundTrip == 9

\* MaximumSegmentSize options whose words are the last for which 5 + words
\* fits 8 bits
TcpWideRun == 250

\* bytes a caller pushes into a buffer to be summed
MaxChecksumBytes == 5

\* a long all-zero buffer
ChecksumZeros == 1500

\* bytes a caller pushes into an options buffer
MaxOptionBytes == 5

\* a payload longer than any Ethernet frame
EthernetJumbo == 1600

(***************************************************************************)
(* Outcomes of a call.                                                     *)
(***************************************************************************)
NoRet == [op |-> "none", kind |-> "None", val |-> <<>>, pre |-> <<>>, args |-> <<>>]

Idle == <<>>

(***************************************************************************)
(* Integer and byte helpers (Rust's to_be_bytes / from_be_bytes, chunks).  *)
(***************************************************************************)
u16_to_be_bytes(v) == <<(v \div 256) % 256, v % 256>>

u16_from_be_bytes(hi, lo) == hi * 256 + lo

\* a + b in u8: [ok, val]; not ok is the overflow panic of a checked build
add_u8(a, b, oc) == [ok |-> ~(oc /\ a + b > 255), val |-> (a + b) % 256]

\* a + b in u16
add_u16(a, b, oc) == [ok |-> ~(oc /\ a + b > 65535), val |-> (a + b) % 65536]

\* the 16-bit word k (1-based) of bytes.chunks(2): a last odd byte is the high byte
chunk_word(bytes, k) ==
    IF 2 * k <= Len(bytes)
    THEN u16_from_be_bytes(bytes[2 * k - 1], bytes[2 * k])
    ELSE bytes[2 * k - 1] * 256

\* the sum of the words lo..hi of bytes.chunks(2), before any reduction
\* (the loop's additions are associative: the range is halved to keep the
\* evaluation shallow)
RECURSIVE sum_chunk_range(_, _, _)
sum_chunk_range(bytes, lo, hi) ==
    IF lo > hi THEN 0
    ELSE IF lo = hi THEN chunk_word(bytes, lo)
    ELSE LET mid == (lo + hi) \div 2
         IN  sum_chunk_range(bytes, lo, mid) + sum_chunk_range(bytes, mid + 1, hi)

sum_chunks(bytes) == sum_chunk_range(bytes, 1, (Len(bytes) + 1) \div 2)

\* `sum += ...` on a u32 accumulator that received `total` in all, as its two
\* 16-bit halves: every term is non-negative, so an addition overflows exactly
\* when total passes 2^32 - 1, and a wrapping sum is total modulo 2^32
acc_u32(total, oc) ==
    [ok |-> ~(oc /\ total \div 65536 > 65535),
     hi |-> (total \div 65536) % 65536,
     lo |-> total % 65536]

\* while (sum >> 16) != 0 { sum = (sum & 0xFFFF) + (sum >> 16); }
\* for sum = hi * 2^16 + lo
RECURSIVE fold_carry(_, _)
fold_carry(hi, lo) ==
    IF hi # 0 THEN fold_carry((lo + hi) \div 65536, (lo + hi) % 65536) ELSE lo

\* !sum as u16: the complement of the low 16 bits
not_as_u16(sum) == 65535 - (sum % 65536)

\* the algorithm without its final complement
checksum_without_complement(bytes, oc) ==
    LET sum == acc_u32(sum_chunks(bytes), oc)
    IN  [ok |-> sum.ok, val |-> fold_carry(sum.hi, sum.lo)]

\* the checksum algorithm of the assemblers over one byte sequence: the
\* chunks(2) loop, the fold and the complement; [ok, val]
checksum(bytes, oc) ==
    LET sum == acc_u32(sum_chunks(bytes), oc)
    IN  [ok |-> sum.ok, val |-> not_as_u16(fold_carry(sum.hi, sum.lo))]

zeros(n) == [i \in 1..n |-> 0]

(***************************************************************************)
(* network/ipv4/header.rs                                                  *)
(***************************************************************************)
Ipv4Flags_new == [reserved |-> FALSE, dont_fragment |-> FALSE, more_fragments |-> FALSE]

\* to_u16 keeping only twelve bits of the fragment offset
Ipv4Flags_to_u16_mask_12(flags, fragment_offset) ==
    (IF flags.reserved THEN 32768 ELSE 0)
    + (IF flags.dont_fragment THEN 16384 ELSE 0)
    + (IF flags.more_fragments THEN 8192 ELSE 0)
    + (fragment_offset % 4096)

Ipv4Flags_to_u16(flags, fragment_offset) ==
    (IF flags.reserved THEN 32768 ELSE 0)
    + (IF flags.dont_fragment THEN 16384 ELSE 0)
    + (IF flags.more_fragments THEN 8192 ELSE 0)
    + (fragment_offset % 8192)

\* from_u16 reading the two fragment flags from each other's bit
Ipv4Flags_from_u16_swapped(value) ==
    [flags |-> [reserved |-> (value \div 32768) % 2 = 1,
                dont_fragment |-> (value \div 8192) % 2 = 1,
                more_fragments |-> (value \div 16384) % 2 = 1],
     fragment_offset |-> value % 8192]

Ipv4Flags_from_u16(value) ==
    [flags |-> [reserved |-> (value \div 32768) % 2 = 1,
                dont_fragment |-> (value \div 16384) % 2 = 1,
                more_fragments |-> (value \div 8192) % 2 = 1],
     fragment_offset |-> value % 8192]

Ipv4Header_new(source_address, destination_address, protocol) ==
    [version |-> 4, ihl |-> 5, type_of_service |-> 0, total_length |-> 0,
     identification |-> 0, flags |-> Ipv4Flags_new, fragment_offset |-> 0,
     time_to_live |-> 64, protocol |-> protocol, header_checksum |-> 0,
     source_address |-> source_address, destination_address |-> destination_address]

Ipv4Header_to_bytes(h) ==
    <<((h.version * 16) % 256) + (h.ihl % 16), h.type_of_service>>
    \o u16_to_be_bytes(h.total_length)
    \o u16_to_be_bytes(h.identification)
    \o u16_to_be_bytes(Ipv4Flags_to_u16(h.flags, h.fragment_offset))
    \o <<h.time_to_live, h.protocol>>
    \o u16_to_be_bytes(h.header_checksum)
    \o h.source_address
    \o h.destination_address

\* the fields from_bytes reads out of the first 20 bytes
Ipv4Header_from_bytes_fields(bytes) ==
    LET ff == Ipv4Flags_from_u16(u16_from_be_bytes(bytes[7], bytes[8]))
    IN  [version |-> (bytes[1] \div 16) % 16, ihl |-> bytes[1] % 16,
         type_of_service |-> bytes[2],
         total_length |-> u16_from_be_bytes(bytes[3], bytes[4]),
         identification |-> u16_from_be_bytes(bytes[5], bytes[6]),
         flags |-> ff.flags,
         fragment_offset |-> ff.fragment_offset,
         time_to_live |-> bytes[9],
         protocol |-> bytes[10],
         header_checksum |-> u16_from_be_bytes(bytes[11], bytes[12]),
         source_address |-> SubSeq(bytes, 13, 16),
         destination_address |-> SubSeq(bytes, 17, 20)]

\* from_bytes refusing the smallest header length as well
Ipv4Header_from_bytes_ihl_above_5(bytes) ==
    IF Len(bytes) < 20
    THEN [kind |-> "Err", val |-> "IPv4 header must be at least 20 bytes"]
    ELSE IF (bytes[1] \div 16) % 16 # 4
    THEN [kind |-> "Err", val |-> "Invalid IP version"]
    ELSE IF bytes[1] % 16 <= 5
    THEN [kind |-> "Err", val |-> "Invalid IHL (must be at least 5)"]
    ELSE [kind |-> "Ok", val |-> Ipv4Header_from_bytes_fields(bytes)]

Ipv4Header_from_bytes(bytes) ==
    IF Len(bytes) < 20
    THEN [kind |-> "Err", val |-> "IPv4 header must be at least 20 bytes"]
    ELSE LET version == (bytes[1] \div 16) % 16
             ihl == bytes[1] % 16
         IN  IF version # 4
             THEN [kind |-> "Err", val |-> "Invalid IP version"]
             ELSE IF ihl < 5
             THEN [kind |-> "Err", val |-> "Invalid IHL (must be at least 5)"]
             ELSE [kind |-> "Ok", val |-> Ipv4Header_from_bytes_fields(bytes)]

(***************************************************************************)
(* network/ipv4/options.rs                                                 *)
(***************************************************************************)
Ipv4Option == {"EndOfOptionsList", "NoOperation"}

Ipv4Option_length(option) == 1

Ipv4Option_to_bytes(option) == IF option = "EndOfOptionsList" THEN <<0>> ELSE <<1>>

Ipv4Options_new == <<>>

Ipv4Options_add(options, option) == Append(options, option)

\* the sum of the lengths of options[lo..hi]
RECURSIVE Ipv4Options_length_range(_, _, _)
Ipv4Options_length_range(options, lo, hi) ==
    IF lo > hi THEN 0
    ELSE IF lo = hi THEN Ipv4Option_length(options[lo])
    ELSE LET mid == (lo + hi) \div 2
         IN  Ipv4Options_length_range(options, lo, mid)
             + Ipv4Options_length_range(options, mid + 1, hi)

Ipv4Options_total_length(options) ==
    LET length == Ipv4Options_length_range(options, 1, Len(options))
        remainder == length % 4
    IN  IF remainder # 0 THEN length + (4 - remainder) ELSE length

\* (total_bytes / 4) as u8
Ipv4Options_words_needed(options) == (Ipv4Options_total_length(options) \div 4) % 256

\* the encodings of options[lo..hi], one after the other
RECURSIVE Ipv4Options_bytes_range(_, _, _)
Ipv4Options_bytes_range(options, lo, hi) ==
    IF lo > hi THEN <<>>
    ELSE IF lo = hi THEN Ipv4Option_to_bytes(options[lo])
    ELSE LET mid == (lo + hi) \div 2
         IN  Ipv4Options_bytes_range(options, lo, mid)
             \o Ipv4Options_bytes_range(options, mid + 1, hi)

Ipv4Options_to_bytes(options) ==
    LET bytes == Ipv4Options_bytes_range(options, 1, Len(options))
        remainder == Len(bytes) % 4
    IN  IF remainder # 0 THEN bytes \o zeros(4 - remainder) ELSE bytes

\* from_bytes taking every unknown type for a NoOperation
Ipv4Option_from_bytes_lenient(bytes) ==
    IF bytes = <<>>
    THEN [kind |-> "Err", val |-> "Empty option bytes"]
    ELSE IF bytes[1] = 0 THEN [kind |-> "Ok", val |-> <<"EndOfOptionsList", 1>>]
    ELSE [kind |-> "Ok", val |-> <<"NoOperation", 1>>]

\* [kind, val]: Ok carries <<option, consumed>>, Err the message
Ipv4Option_from_bytes(bytes) ==
    IF bytes = <<>>
    THEN [kind |-> "Err", val |-> "Empty option bytes"]
    ELSE IF bytes[1] = 0 THEN [kind |-> "Ok", val |-> <<"EndOfOptionsList", 1>>]
    ELSE IF bytes[1] = 1 THEN [kind |-> "Ok", val |-> <<"NoOperation", 1>>]
    ELSE [kind |-> "Err", val |-> "Unknown option type"]

\* the while loop without its break on EndOfOptionsList
RECURSIVE Ipv4Options_from_bytes_loop_without_break(_, _, _)
Ipv4Options_from_bytes_loop_without_break(bytes, pos, options) ==
    IF ~(pos < Len(bytes))
    THEN [kind |-> "Ok", val |-> options]
    ELSE LET r == IF bytes[pos + 1] = 0
                  THEN [kind |-> "Ok", val |-> <<"EndOfOptionsList", 1>>]
                  ELSE IF bytes[pos + 1] = 1
                  THEN [kind |-> "Ok", val |-> <<"NoOperation", 1>>]
                  ELSE [kind |-> "Err", val |-> "Unknown option type"]
         IN  IF r.kind = "Err" THEN r
             ELSE Ipv4Options_from_bytes_loop_without_break(bytes, pos + r.val[2],
                                                            Append(options, r.val[1]))

\* the while loop of Ipv4Options::from_bytes, from position pos (0-based)
RECURSIVE Ipv4Options_from_bytes_loop(_, _, _)
Ipv4Options_from_bytes_loop(bytes, pos, options) ==
    IF ~(pos < Len(bytes))
    THEN [kind |-> "Ok", val |-> options]
    ELSE LET r == Ipv4Option_from_bytes(SubSeq(bytes, pos + 1, Len(bytes)))
         IN  IF r.kind = "Err" THEN r
             ELSE IF r.val[1] = "EndOfOptionsList"
             THEN [kind |-> "Ok", val |-> Append(options, r.val[1])]
             ELSE Ipv4Options_from_bytes_loop(bytes, pos + r.val[2],
                                              Append(options, r.val[1]))

Ipv4Options_from_bytes(bytes) == Ipv4Options_from_bytes_loop(bytes, 0, <<>>)

(***************************************************************************)
(* network/ipv4/mod.rs                                                     *)
(***************************************************************************)
Ipv4Packet_new(src_ip, dst_ip, protocol, payload) ==
    [header |-> Ipv4Header_new(src_ip, dst_ip, protocol),
     options |-> Ipv4Options_new,
     payload |-> payload]

\* update_ihl putting the default time-to-live back as well
Ipv4Packet_update_ihl_and_ttl(pkt, oc) ==
    LET s == add_u8(5, Ipv4Options_words_needed(pkt.options), oc)
    IN  [ok |-> s.ok,
         pkt |-> IF s.ok
                 THEN [pkt EXCEPT !.header.ihl = s.val, !.header.time_to_live = 64]
                 ELSE pkt]

\* [ok, pkt]: not ok is a panic, with pkt as the panic left it
Ipv4Packet_update_ihl(pkt, oc) ==
    LET s == add_u8(5, Ipv4Options_words_needed(pkt.options), oc)
    IN  [ok |-> s.ok,
         pkt |-> IF s.ok THEN [pkt EXCEPT !.header.ihl = s.val] ELSE pkt]

Ipv4Packet_update_total_length(pkt, oc) ==
    LET header_len == (pkt.header.ihl * 4) % 65536
        s == add_u16(header_len, Len(pkt.payload) % 65536, oc)
    IN  [ok |-> s.ok,
         pkt |-> IF s.ok THEN [pkt EXCEPT !.header.total_length = s.val] ELSE pkt]

\* the checksum field is not cleared before the sum
Ipv4Packet_checksum_input_not_cleared(pkt) ==
    Ipv4Header_to_bytes(pkt.header) \o Ipv4Options_to_bytes(pkt.options)

\* the header bytes with the checksum field cleared, then the options
Ipv4Packet_checksum_input(pkt) ==
    LET header_bytes == Ipv4Header_to_bytes(pkt.header)
    IN  [header_bytes EXCEPT ![11] = 0, ![12] = 0] \o Ipv4Options_to_bytes(pkt.options)

\* [ok, val]
Ipv4Packet_calculate_header_checksum(pkt, oc) ==
    checksum(Ipv4Packet_checksum_input(pkt), oc)

\* the options are left out of the returned bytes
Ipv4Packet_to_bytes_without_options(pkt, oc) ==
    LET s1 == Ipv4Packet_update_ihl(pkt, oc)
        s2 == Ipv4Packet_update_total_length(s1.pkt, oc)
        c  == Ipv4Packet_calculate_header_checksum(s2.pkt, oc)
        p3 == [s2.pkt EXCEPT !.header.header_checksum = c.val]
    IN  IF ~s1.ok \/ ~s2.ok \/ ~c.ok THEN [pkt |-> pkt, kind |-> "Panic", val |-> <<>>]
        ELSE [pkt |-> p3, kind |-> "Bytes",
              val |-> Ipv4Header_to_bytes(p3.header) \o p3.payload]

\* [pkt, kind, val]: the packet after the call and what the call returned
Ipv4Packet_to_bytes(pkt, oc) ==
    LET s1 == Ipv4Packet_update_ihl(pkt, oc)
        s2 == Ipv4Packet_update_total_length(s1.pkt, oc)
        c  == Ipv4Packet_calculate_header_checksum(s2.pkt, oc)
        p3 == [s2.pkt EXCEPT !.header.header_checksum = c.val]
    IN  IF ~s1.ok THEN [pkt |-> pkt, kind |-> "Panic", val |-> <<>>]
        ELSE IF ~s2.ok THEN [pkt |-> s1.pkt, kind |-> "Panic", val |-> <<>>]
        ELSE IF ~c.ok THEN [pkt |-> s2.pkt, kind |-> "Panic", val |-> <<>>]
        ELSE [pkt |-> p3, kind |-> "Bytes",
              val |-> Ipv4Header_to_bytes(p3.header)
                      \o Ipv4Options_to_bytes(p3.options)
                      \o p3.payload]

(***************************************************************************)
(* transport/tcp/header.rs                                                 *)
(***************************************************************************)
TcpFlags_new ==
    [cwr |-> FALSE, ece |-> FALSE, urg |-> FALSE, ack |-> FALSE,
     psh |-> FALSE, rst |-> FALSE, syn |-> FALSE, fin |-> FALSE]

TcpFlags_to_u16(flags) ==
    (IF flags.fin THEN 1 ELSE 0) + (IF flags.syn THEN 2 ELSE 0)
    + (IF flags.rst THEN 4 ELSE 0) + (IF flags.psh THEN 8 ELSE 0)
    + (IF flags.ack THEN 16 ELSE 0) + (IF flags.urg THEN 32 ELSE 0)
    + (IF flags.ece THEN 64 ELSE 0) + (IF flags.cwr THEN 128 ELSE 0)

\* from_u16 reading ECE and CWR from each other's bit
TcpFlags_from_u16_swapped(value) ==
    [fin |-> value % 2 = 1,
     syn |-> (value \div 2) % 2 = 1,
     rst |-> (value \div 4) % 2 = 1,
     psh |-> (value \div 8) % 2 = 1,
     ack |-> (value \div 16) % 2 = 1,
     urg |-> (value \div 32) % 2 = 1,
     ece |-> (value \div 128) % 2 = 1,
     cwr |-> (value \div 64) % 2 = 1]

TcpFlags_from_u16(value) ==
    [fin |-> value % 2 = 1,
     syn |-> (value \div 2) % 2 = 1,
     rst |-> (value \div 4) % 2 = 1,
     psh |-> (value \div 8) % 2 = 1,
     ack |-> (value \div 16) % 2 = 1,
     urg |-> (value \div 32) % 2 = 1,
     ece |-> (value \div 64) % 2 = 1,
     cwr |-> (value \div 128) % 2 = 1]

TcpHeader_new(source_port, destination_port) ==
    [source_port |-> source_port, destination_port |-> destination_port,
     sequence_number |-> <<0, 0>>, acknowledgment_number |-> <<0, 0>>,
     data_offset |-> 5, reserved |-> 0, flags |-> TcpFlags_new,
     window |-> 0, checksum |-> 0, urgent_pointer |-> 0]

\* a u32 field is kept as its two 16-bit halves <<high, low>>
TcpHeader_to_bytes(h) ==
    u16_to_be_bytes(h.source_port)
    \o u16_to_be_bytes(h.destination_port)
    \o u16_to_be_bytes(h.sequence_number[1]) \o u16_to_be_bytes(h.sequence_number[2])
    \o u16_to_be_bytes(h.acknowledgment_number[1])
    \o u16_to_be_bytes(h.acknowledgment_number[2])
    \o <<((h.data_offset * 16) % 256) + (h.reserved % 8)>>
    \o <<TcpFlags_to_u16(h.flags) % 256>>
    \o u16_to_be_bytes(h.window)
    \o u16_to_be_bytes(h.checksum)
    \o u16_to_be_bytes(h.urgent_pointer)

TcpHeader_from_bytes(bytes) ==
    IF Len(bytes) < 20
    THEN [kind |-> "Panic", val |-> "TCP header must be at least 20 bytes"]
    ELSE [kind |-> "Value",
          val |-> [source_port |-> u16_from_be_bytes(bytes[1], bytes[2]),
                   destination_port |-> u16_from_be_bytes(bytes[3], bytes[4]),
                   sequence_number |-> <<u16_from_be_bytes(bytes[5], bytes[6]),
                                         u16_from_be_bytes(bytes[7], bytes[8])>>,
                   acknowledgment_number |-> <<u16_from_be_bytes(bytes[9], bytes[10]),
                                               u16_from_be_bytes(bytes[11], bytes[12])>>,
                   data_offset |-> bytes[13] \div 16,
                   reserved |-> (bytes[13] % 16) \div 2,
                   flags |-> TcpFlags_from_u16(bytes[14]),
                   window |-> u16_from_be_bytes(bytes[15], bytes[16]),
                   checksum |-> u16_from_be_bytes(bytes[17], bytes[18]),
                   urgent_pointer |-> u16_from_be_bytes(bytes[19], bytes[20])]]

(***************************************************************************)
(* transport/tcp/options.rs                                                *)
(* An option is <<"EndOfOptionList">>, <<"NoOperation">> or                *)
(* <<"MaximumSegmentSize", mss>>.                                          *)
(***************************************************************************)
TcpOption_kind(option) ==
    IF option[1] = "EndOfOptionList" THEN 0
    ELSE IF option[1] = "NoOperation" THEN 1
    ELSE 2

TcpOption_length(option) ==
    IF option[1] = "EndOfOptionList" THEN 1
    ELSE IF option[1] = "NoOperation" THEN 1
    ELSE 4

TcpOption_to_bytes(option) ==
    IF option[1] = "EndOfOptionList" THEN <<0>>
    ELSE IF option[1] = "NoOperation" THEN <<1>>
    ELSE <<2, 4>> \o u16_to_be_bytes(option[2])

TcpOptions_new == <<>>

TcpOptions_add(options, option) == Append(options, option)

\* the sum of the lengths of options[lo..hi]
RECURSIVE TcpOptions_length_range(_, _, _)
TcpOptions_length_range(options, lo, hi) ==
    IF lo > hi THEN 0
    ELSE IF lo = hi THEN TcpOption_length(options[lo])
    ELSE LET mid == (lo + hi) \div 2
         IN  TcpOptions_length_range(options, lo, mid)
             + TcpOptions_length_range(options, mid + 1, hi)

TcpOptions_total_length(options) == TcpOptions_length_range(options, 1, Len(options))

\* ((byte_length + 3) / 4) as u8
TcpOptions_words_needed(options) ==
    ((TcpOptions_total_length(options) + 3) \div 4) % 256

\* the encodings of options[lo..hi], one after the other
RECURSIVE TcpOptions_bytes_range(_, _, _)
TcpOptions_bytes_range(options, lo, hi) ==
    IF lo > hi THEN <<>>
    ELSE IF lo = hi THEN TcpOption_to_bytes(options[lo])
    ELSE LET mid == (lo + hi) \div 2
         IN  TcpOptions_bytes_range(options, lo, mid)
             \o TcpOptions_bytes_range(options, mid + 1, hi)

TcpOptions_to_bytes(options) ==
    LET bytes == TcpOptions_bytes_range(options, 1, Len(options))
        target_length == TcpOptions_words_needed(options) * 4
    IN  IF Len(bytes) < target_length
        THEN bytes \o zeros(target_length - Len(bytes))
        ELSE bytes

\* from_bytes accepting any length byte in an MSS option
TcpOption_from_bytes_any_length(bytes) ==
    IF bytes = <<>>
    THEN [kind |-> "Err", val |-> "Empty bytes for TCP option"]
    ELSE IF bytes[1] = 0 THEN [kind |-> "Ok", val |-> <<(<<"EndOfOptionList">>), 1>>]
    ELSE IF bytes[1] = 1 THEN [kind |-> "Ok", val |-> <<(<<"NoOperation">>), 1>>]
    ELSE IF bytes[1] = 2
    THEN IF Len(bytes) < 4
         THEN [kind |-> "Err", val |-> "MSS option requires 4 bytes"]
         ELSE [kind |-> "Ok",
               val |-> <<(<<"MaximumSegmentSize",
                            u16_from_be_bytes(bytes[3], bytes[4])>>), 4>>]
    ELSE [kind |-> "Err", val |-> "Unknown TCP option kind"]

\* [kind, val]: Ok carries <<option, consumed>>, Err the message
TcpOption_from_bytes(bytes) ==
    IF bytes = <<>>
    THEN [kind |-> "Err", val |-> "Empty bytes for TCP option"]
    ELSE IF bytes[1] = 0 THEN [kind |-> "Ok", val |-> <<(<<"EndOfOptionList">>), 1>>]
    ELSE IF bytes[1] = 1 THEN [kind |-> "Ok", val |-> <<(<<"NoOperation">>), 1>>]
    ELSE IF bytes[1] = 2
    THEN IF Len(bytes) < 4
         THEN [kind |-> "Err", val |-> "MSS option requires 4 bytes"]
         ELSE IF bytes[2] # 4
         THEN [kind |-> "Err", val |-> "MSS option length must be 4"]
         ELSE [kind |-> "Ok",
               val |-> <<(<<"MaximumSegmentSize",
                            u16_from_be_bytes(bytes[3], bytes[4])>>), 4>>]
    ELSE [kind |-> "Err", val |-> "Unknown TCP option kind"]

\* the while loop without its check for a padding zero
RECURSIVE TcpOptions_from_bytes_loop_without_padding_check(_, _, _)
TcpOptions_from_bytes_loop_without_padding_check(bytes, offset, options) ==
    IF ~(offset < Len(bytes))
    THEN [kind |-> "Ok", val |-> options]
    ELSE LET r == TcpOption_from_bytes(SubSeq(bytes, offset + 1, Len(bytes)))
         IN  IF r.kind = "Err" THEN r
             ELSE IF r.val[1][1] = "EndOfOptionList"
             THEN [kind |-> "Ok", val |-> Append(options, r.val[1])]
             ELSE TcpOptions_from_bytes_loop_without_padding_check(
                      bytes, offset + r.val[2], Append(options, r.val[1]))

\* the while loop of TcpOptions::from_bytes, from position offset (0-based)
RECURSIVE TcpOptions_from_bytes_loop(_, _, _)
TcpOptions_from_bytes_loop(bytes, offset, options) ==
    IF ~(offset < Len(bytes))
    THEN [kind |-> "Ok", val |-> options]
    ELSE IF bytes[offset + 1] = 0
    THEN [kind |-> "Ok", val |-> options]
    ELSE LET r == TcpOption_from_bytes(SubSeq(bytes, offset + 1, Len(bytes)))
         IN  IF r.kind = "Err" THEN r
             ELSE IF r.val[1][1] = "EndOfOptionList"
             THEN [kind |-> "Ok", val |-> Append(options, r.val[1])]
             ELSE TcpOptions_from_bytes_loop(bytes, offset + r.val[2],
                                             Append(options, r.val[1]))

TcpOptions_from_bytes(bytes) == TcpOptions_from_bytes_loop(bytes, 0, <<>>)

(***************************************************************************)
(* transport/tcp/mod.rs                                                    *)
(***************************************************************************)
TcpPacket_new(source_port, destination_port, payload) ==
    [header |-> TcpHeader_new(source_port, destination_port),
     options |-> TcpOptions_new,
     payload |-> payload]

\* [ok, pkt]: not ok is a panic, with pkt as the panic left it
TcpPacket_update_data_offset(pkt, oc) ==
    LET s == add_u8(5, TcpOptions_words_needed(pkt.options), oc)
    IN  [ok |-> s.ok,
         pkt |-> IF s.ok THEN [pkt EXCEPT !.header.data_offset = s.val] ELSE pkt]

\* (self.header.data_offset as u32 * 4) + self.payload.len() as u32
TcpPacket_tcp_length(pkt) == pkt.header.data_offset * 4 + Len(pkt.payload)

\* the header bytes with the checksum field cleared, then the options
TcpPacket_header_and_options(pkt) ==
    LET header_bytes == TcpHeader_to_bytes(pkt.header)
    IN  [header_bytes EXCEPT ![17] = 0, ![18] = 0] \o TcpOptions_to_bytes(pkt.options)

\* calculate_checksum_ipv4 with the segment length left out of the pseudo-header
TcpPacket_calculate_checksum_ipv4_without_length(pkt, src_ip, dst_ip, oc) ==
    LET total == u16_from_be_bytes(src_ip[1], src_ip[2])
                 + u16_from_be_bytes(src_ip[3], src_ip[4])
                 + u16_from_be_bytes(dst_ip[1], dst_ip[2])
                 + u16_from_be_bytes(dst_ip[3], dst_ip[4])
                 + 6
                 + sum_chunks(TcpPacket_header_and_options(pkt))
                 + sum_chunks(pkt.payload)
        sum == acc_u32(total, oc)
    IN  [ok |-> sum.ok, val |-> not_as_u16(fold_carry(sum.hi, sum.lo))]

\* [ok, val]
TcpPacket_calculate_checksum_ipv4(pkt, src_ip, dst_ip, oc) ==
    LET total == u16_from_be_bytes(src_ip[1], src_ip[2])
                 + u16_from_be_bytes(src_ip[3], src_ip[4])
                 + u16_from_be_bytes(dst_ip[1], dst_ip[2])
                 + u16_from_be_bytes(dst_ip[3], dst_ip[4])
                 + 6
                 + TcpPacket_tcp_length(pkt)
                 + sum_chunks(TcpPacket_header_and_options(pkt))
                 + sum_chunks(pkt.payload)
        sum == acc_u32(total, oc)
    IN  [ok |-> sum.ok, val |-> not_as_u16(fold_carry(sum.hi, sum.lo))]

\* calculate_checksum_ipv6 with the next-header value left out of the pseudo-header
TcpPacket_calculate_checksum_ipv6_without_next_header(pkt, src_ip, dst_ip, oc) ==
    LET total == sum_chunks(src_ip)
                 + sum_chunks(dst_ip)
                 + TcpPacket_tcp_length(pkt)
                 + sum_chunks(TcpPacket_header_and_options(pkt))
                 + sum_chunks(pkt.payload)
        sum == acc_u32(total, oc)
    IN  [ok |-> sum.ok, val |-> not_as_u16(fold_carry(sum.hi, sum.lo))]

\* [ok, val]
TcpPacket_calculate_checksum_ipv6(pkt, src_ip, dst_ip, oc) ==
    LET total == sum_chunks(src_ip)
                 + sum_chunks(dst_ip)
                 + TcpPacket_tcp_length(pkt)
                 + 6
                 + sum_chunks(TcpPacket_header_and_options(pkt))
                 + sum_chunks(pkt.payload)
        sum == acc_u32(total, oc)
    IN  [ok |-> sum.ok, val |-> not_as_u16(fold_carry(sum.hi, sum.lo))]

\* [pkt, kind, val]: the packet after the call and what the call returned
TcpPacket_to_bytes_ipv4(pkt, src_ip, dst_ip, oc) ==
    LET s  == TcpPacket_update_data_offset(pkt, oc)
        c  == TcpPacket_calculate_checksum_ipv4(s.pkt, src_ip, dst_ip, oc)
        p2 == [s.pkt EXCEPT !.header.checksum = c.val]
    IN  IF ~s.ok THEN [pkt |-> pkt, kind |-> "Panic", val |-> <<>>]
        ELSE IF ~c.ok THEN [pkt |-> s.pkt, kind |-> "Panic", val |-> <<>>]
        ELSE [pkt |-> p2, kind |-> "Bytes",
              val |-> TcpHeader_to_bytes(p2.header)
                      \o TcpOptions_to_bytes(p2.options)
                      \o p2.payload]

TcpPacket_to_bytes_ipv6(pkt, src_ip, dst_ip, oc) ==
    LET s  == TcpPacket_update_data_offset(pkt, oc)
        c  == TcpPacket_calculate_checksum_ipv6(s.pkt, src_ip, dst_ip, oc)
        p2 == [s.pkt EXCEPT !.header.checksum = c.val]
    IN  IF ~s.ok THEN [pkt |-> pkt, kind |-> "Panic", val |-> <<>>]
        ELSE IF ~c.ok THEN [pkt |-> s.pkt, kind |-> "Panic", val |-> <<>>]
        ELSE [pkt |-> p2, kind |-> "Bytes",
              val |-> TcpHeader_to_bytes(p2.header)
                      \o TcpOptions_to_bytes(p2.options)
                      \o p2.payload]

(***************************************************************************)
(* datalink/ethernet/header.rs, datalink/ethernet/mod.rs                   *)
(* Indexing a slice past its end panics.                                   *)
(***************************************************************************)
EthernetHeader_from_bytes(bytes) ==
    IF Len(bytes) < 6
    THEN [kind |-> "Panic", val |-> "range end index 6 out of range for slice"]
    ELSE IF Len(bytes) < 12
    THEN [kind |-> "Panic", val |-> "range end index 12 out of range for slice"]
    ELSE IF Len(bytes) < 14
    THEN [kind |-> "Panic", val |-> "range end index 14 out of range for slice"]
    ELSE [kind |-> "Value",
          val |-> [destination_mac_address |-> SubSeq(bytes, 1, 6),
                   source_mac_address |-> SubSeq(bytes, 7, 12),
                   ethertype |-> SubSeq(bytes, 13, 14)]]

\* from_bytes taking the payload from the type tag on
EthernetFrame_from_bytes_payload_from_tag(bytes) ==
    IF Len(bytes) < 14
    THEN [kind |-> "Panic", val |-> "range end index 14 out of range for slice"]
    ELSE [kind |-> "Value",
          val |-> [header |-> EthernetHeader_from_bytes(SubSeq(bytes, 1, 14)).val,
                   payload |-> SubSeq(bytes, 13, Len(bytes))]]

EthernetFrame_from_bytes(bytes) ==
    IF Len(bytes) < 14
    THEN [kind |-> "Panic", val |-> "range end index 14 out of range for slice"]
    ELSE [kind |-> "Value",
          val |-> [header |-> EthernetHeader_from_bytes(SubSeq(bytes, 1, 14)).val,
                   payload |-> SubSeq(bytes, 15, Len(bytes))]]

(***************************************************************************)
(* The Ipv4Packet state machine: a caller that builds one packet.          *)
(***************************************************************************)
IpAddresses == {<<(<<192, 168, 1, 1>>), (<<192, 168, 1, 100>>)>>,
                <<(<<255, 255, 255, 255>>), (<<10, 0, 0, 255>>)>>}

Payloads == {<<>>, <<72>>, <<84, 101, 115, 116>>, <<255, 255, 1>>}

\* header-field assignments a caller makes between calls
Ipv4HeaderAssignments == {"stale", "ident", "frag"}

Ipv4Header_assign(h, a) ==
    IF a = "stale"
    THEN [h EXCEPT !.ihl = 15, !.total_length = 65535, !.header_checksum = 4660]
    ELSE IF a = "ident"
    THEN [h EXCEPT !.identification = 7238, !.flags.dont_fragment = TRUE,
                   !.time_to_live = 1, !.type_of_service = 16]
    ELSE [h EXCEPT !.flags.reserved = TRUE, !.flags.more_fragments = TRUE,
                   !.fragment_offset = 8191]

IpPanicked == ip_ret.kind = "Panic"

InitIp ==
    /\ overflow_checks \in BOOLEAN
    /\ \E a \in IpAddresses, payload \in Payloads :
           ip = Ipv4Packet_new(a[1], a[2], 17, payload)
    /\ ip_ret = NoRet
    /\ tcp = Idle
    /\ tcp_ret = NoRet
    /\ codec = Idle

\* packet.options.add(option)
IpAdd ==
    /\ ~IpPanicked
    /\ \/ Len(ip.options) < MaxMixed
       \/ Len(ip.options) >= IpRun /\ Len(ip.options) < IpRun + MaxTail
    /\ \E option \in Ipv4Option :
           ip' = [ip EXCEPT !.options = Ipv4Options_add(@, option)]
    /\ ip_ret' = NoRet
    /\ UNCHANGED <<overflow_checks, tcp, tcp_ret, codec>>

\* packet.options = Ipv4Options { options: vec![NoOperation; IpRun] }
IpSetOptions ==
    /\ ~IpPanicked
    /\ ip.options = <<>>
    /\ ip_ret.op = "none"
    /\ ip' = [ip EXCEPT !.options = [i \in 1..IpRun |-> "NoOperation"]]
    /\ ip_ret' = NoRet
    /\ UNCHANGED <<overflow_checks, tcp, tcp_ret, codec>>

\* packet.header.<field> = <value>
IpSetHeader ==
    /\ ~IpPanicked
    /\ \E a \in Ipv4HeaderAssignments :
           ip' = [ip EXCEPT !.header = Ipv4Header_assign(@, a)]
    /\ ip_ret' = NoRet
    /\ UNCHANGED <<overflow_checks, tcp, tcp_ret, codec>>

\* packet.to_bytes()
IpToBytes ==
    /\ ~IpPanicked
    /\ LET r == Ipv4Packet_to_bytes(ip, overflow_checks)
       IN  /\ ip' = r.pkt
           /\ ip_ret' = [op |-> "to_bytes", kind |-> r.kind, val |-> r.val,
                         pre |-> ip, args |-> <<>>]
    /\ UNCHANGED <<overflow_checks, tcp, tcp_ret, codec>>

NextIp == IpAdd \/ IpSetHeader \/ IpToBytes

SpecIp == InitIp /\ [][NextIp]_vars

\* the same caller, with option lists long enough for the u8 word count to
\* overflow
InitIpWide ==
    /\ overflow_checks \in BOOLEAN
    /\ ip = Ipv4Packet_new(<<192, 168, 1, 1>>, <<192, 168, 1, 100>>, 17, <<72>>)
    /\ ip_ret = NoRet
    /\ tcp = Idle
    /\ tcp_ret = NoRet
    /\ codec = Idle

NextIpWide == IpAdd \/ IpSetOptions \/ IpToBytes

SpecIpWide == InitIpWide /\ [][NextIpWide]_vars

(***************************************************************************)
(* The TcpPacket state machine: a caller that builds one segment.          *)
(***************************************************************************)
Ip6Addresses ==
    {<<(<<32, 1, 13, 184, 0, 0, 0, 0, 0, 0, 0, 0, 0, 0, 0, 1>>),
       (<<32, 1, 13, 184, 0, 0, 0, 0, 0, 0, 0, 0, 0, 0, 0, 2>>)>>,
     <<(<<255, 255, 255, 255, 255, 255, 255, 255, 255, 255, 255, 255, 255, 255, 255, 255>>),
       (<<254, 128, 0, 0, 0, 0, 0, 0, 255, 255, 255, 255, 255, 255, 255, 254>>)>>}

TcpOptionChoices ==
    {<<"EndOfOptionList">>, <<"NoOperation">>, <<"MaximumSegmentSize", 1460>>}

TcpPayloads == {<<>>, <<255, 255, 1>>, <<84, 101, 115, 116>>}

\* header-field assignments a caller makes between calls
TcpHeaderAssignments == {"stale", "syn"}

TcpHeader_assign(h, a) ==
    IF a = "stale"
    THEN [h EXCEPT !.data_offset = 15, !.checksum = 4660]
    ELSE [h EXCEPT !.flags.syn = TRUE, !.flags.cwr = TRUE,
                   !.sequence_number = <<4660, 22136>>,
                   !.window = 65535, !.urgent_pointer = 255]

TcpPanicked == tcp_ret.kind = "Panic"

InitTcp ==
    /\ overflow_checks \in BOOLEAN
    /\ \E payload \in TcpPayloads : tcp = TcpPacket_new(12345, 80, payload)
    /\ tcp_ret = NoRet
    /\ ip = Idle
    /\ ip_ret = NoRet
    /\ codec = Idle

\* packet.options.add(option)
TcpAdd ==
    /\ ~TcpPanicked
    /\ tcp_ret.op = "none"
    /\ \/ Len(tcp.options) < TcpMixed
       \/ Len(tcp.options) >= TcpRun /\ Len(tcp.options) < TcpRun + MaxTail
       \/ Len(tcp.options) >= TcpWideRun /\ Len(tcp.options) < TcpWideRun + MaxTail
    /\ \E option \in TcpOptionChoices :
           tcp' = [tcp EXCEPT !.options = TcpOptions_add(@, option)]
    /\ tcp_ret' = NoRet
    /\ UNCHANGED <<overflow_checks, ip, ip_ret, codec>>

\* packet.options = TcpOptions { options: vec![MaximumSegmentSize(1460); TcpRun] }
TcpSetOptions ==
    /\ ~TcpPanicked
    /\ tcp.options = <<>>
    /\ tcp_ret.op = "none"
    /\ tcp' = [tcp EXCEPT !.options = [i \in 1..TcpRun |-> <<"MaximumSegmentSize", 1460>>]]
    /\ tcp_ret' = NoRet
    /\ UNCHANGED <<overflow_checks, ip, ip_ret, codec>>

\* packet.header.<field> = <value>, while the segment is being prepared
TcpSetHeader ==
    /\ ~TcpPanicked
    /\ tcp_ret.op = "none"
    /\ \E a \in TcpHeaderAssignments :
           tcp' = [tcp EXCEPT !.header = TcpHeader_assign(@, a)]
    /\ tcp_ret' = NoRet
    /\ UNCHANGED <<overflow_checks, ip, ip_ret, codec>>

\* packet.to_bytes_ipv4(src_ip, dst_ip)
TcpToBytesIpv4 ==
    /\ ~TcpPanicked
    /\ \E a \in IpAddresses :
           LET r == TcpPacket_to_bytes_ipv4(tcp, a[1], a[2], overflow_checks)
           IN  /\ tcp' = r.pkt
               /\ tcp_ret' = [op |-> "to_bytes_ipv4", kind |-> r.kind, val |-> r.val,
                              pre |-> tcp, args |-> a]
    /\ UNCHANGED <<overflow_checks, ip, ip_ret, codec>>

\* packet.to_bytes_ipv6(src_ip, dst_ip)
TcpToBytesIpv6 ==
    /\ ~TcpPanicked
    /\ \E a \in Ip6Addresses :
           LET r == TcpPacket_to_bytes_ipv6(tcp, a[1], a[2], overflow_checks)
           IN  /\ tcp' = r.pkt
               /\ tcp_ret' = [op |-> "to_bytes_ipv6", kind |-> r.kind, val |-> r.val,
                              pre |-> tcp, args |-> a]
    /\ UNCHANGED <<overflow_checks, ip, ip_ret, codec>>

NextTcp == TcpAdd \/ TcpSetOptions \/ TcpSetHeader \/ TcpToBytesIpv4 \/ TcpToBytesIpv6

SpecTcp == InitTcp /\ [][NextTcp]_vars

\* the same caller, with option lists long enough for the u8 header length to
\* overflow
InitTcpWide ==
    /\ overflow_checks \in BOOLEAN
    /\ \E payload \in TcpPayloads : tcp = TcpPacket_new(12345, 80, payload)
    /\ tcp_ret = NoRet
    /\ ip = Idle
    /\ ip_ret = NoRet
    /\ codec = Idle

\* packet.options = TcpOptions { options: vec![MaximumSegmentSize(1460); TcpWideRun] }
TcpSetWideOptions ==
    /\ ~TcpPanicked
    /\ tcp.options = <<>>
    /\ tcp_ret.op = "none"
    /\ tcp' = [tcp EXCEPT !.options =
                   [i \in 1..TcpWideRun |-> <<"MaximumSegmentSize", 1460>>]]
    /\ tcp_ret' = NoRet
    /\ UNCHANGED <<overflow_checks, ip, ip_ret, codec>>

NextTcpWide == TcpAdd \/ TcpSetWideOptions \/ TcpToBytesIpv4 \/ TcpToBytesIpv6

SpecTcpWide == InitTcpWide /\ [][NextTcpWide]_vars

(***************************************************************************)
(* A caller that builds one packet or one segment and also calls the       *)
(* read-only operations (&self) on it.                                     *)
(***************************************************************************)
InitBuild ==
    /\ overflow_checks \in BOOLEAN
    /\ ip_ret = NoRet
    /\ tcp_ret = NoRet
    /\ \/ /\ codec = [type |-> "Build", of |-> "Ipv4Packet"]
          /\ ip = Ipv4Packet_new(<<192, 168, 1, 1>>, <<192, 168, 1, 100>>, 17,
                                 <<255, 255, 1>>)
          /\ tcp = Idle
       \/ /\ codec = [type |-> "Build", of |-> "TcpPacket"]
          /\ ip = Idle
          /\ tcp = TcpPacket_new(12345, 80, <<255, 255, 1>>)

\* packet.header.to_bytes()
Ipv4PacketHeaderToBytes ==
    /\ ~IpPanicked
    /\ ip_ret' = [op |-> "header.to_bytes", kind |-> "Bytes",
                  val |-> Ipv4Header_to_bytes(ip.header), pre |-> ip, args |-> <<>>]
    /\ UNCHANGED <<overflow_checks, ip, tcp, tcp_ret, codec>>

\* packet.options.to_bytes()
Ipv4PacketOptionsToBytes ==
    /\ ~IpPanicked
    /\ ip_ret' = [op |-> "options.to_bytes", kind |-> "Bytes",
                  val |-> Ipv4Options_to_bytes(ip.options), pre |-> ip, args |-> <<>>]
    /\ UNCHANGED <<overflow_checks, ip, tcp, tcp_ret, codec>>

\* packet.calculate_header_checksum()
IpCalculateHeaderChecksum ==
    /\ ~IpPanicked
    /\ LET c == Ipv4Packet_calculate_header_checksum(ip, overflow_checks)
       IN  ip_ret' = [op |-> "calculate_header_checksum",
                      kind |-> IF c.ok THEN "Value" ELSE "Panic",
                      val |-> c.val, pre |-> ip, args |-> <<>>]
    /\ UNCHANGED <<overflow_checks, ip, tcp, tcp_ret, codec>>

\* packet.header.to_bytes()
TcpPacketHeaderToBytes ==
    /\ ~TcpPanicked
    /\ tcp_ret' = [op |-> "header.to_bytes", kind |-> "Bytes",
                   val |-> TcpHeader_to_bytes(tcp.header), pre |-> tcp, args |-> <<>>]
    /\ UNCHANGED <<overflow_checks, ip, ip_ret, tcp, codec>>

\* packet.options.to_bytes()
TcpPacketOptionsToBytes ==
    /\ ~TcpPanicked
    /\ tcp_ret' = [op |-> "options.to_bytes", kind |-> "Bytes",
                   val |-> TcpOptions_to_bytes(tcp.options), pre |-> tcp, args |-> <<>>]
    /\ UNCHANGED <<overflow_checks, ip, ip_ret, tcp, codec>>

\* packet.calculate_checksum_ipv4(src_ip, dst_ip)
TcpCalculateChecksumIpv4 ==
    /\ ~TcpPanicked
    /\ \E a \in IpAddresses :
           LET c == TcpPacket_calculate_checksum_ipv4(tcp, a[1], a[2], overflow_checks)
           IN  tcp_ret' = [op |-> "calculate_checksum_ipv4",
                           kind |-> IF c.ok THEN "Value" ELSE "Panic",
                           val |-> c.val, pre |-> tcp, args |-> a]
    /\ UNCHANGED <<overflow_checks, ip, ip_ret, tcp, codec>>

\* packet.calculate_checksum_ipv6(src_ip, dst_ip)
TcpCalculateChecksumIpv6 ==
    /\ ~TcpPanicked
    /\ \E a \in Ip6Addresses :
           LET c == TcpPacket_calculate_checksum_ipv6(tcp, a[1], a[2], overflow_checks)
           IN  tcp_ret' = [op |-> "calculate_checksum_ipv6",
                           kind |-> IF c.ok THEN "Value" ELSE "Panic",
                           val |-> c.val, pre |-> tcp, args |-> a]
    /\ UNCHANGED <<overflow_checks, ip, ip_ret, tcp, codec>>

NextBuildIp ==
    /\ codec.of = "Ipv4Packet"
    /\ \/ IpAdd
       \/ IpSetHeader
       \/ IpToBytes
       \/ Ipv4PacketHeaderToBytes
       \/ Ipv4PacketOptionsToBytes
       \/ IpCalculateHeaderChecksum

NextBuildTcp ==
    /\ codec.of = "TcpPacket"
    /\ \/ TcpAdd
       \/ TcpSetHeader
       \/ TcpToBytesIpv4
       \/ TcpToBytesIpv6
       \/ TcpPacketHeaderToBytes
       \/ TcpPacketOptionsToBytes
       \/ TcpCalculateChecksumIpv4
       \/ TcpCalculateChecksumIpv6

NextBuild == NextBuildIp \/ NextBuildTcp

SpecBuild == InitBuild /\ [][NextBuild]_vars

(***************************************************************************)
(* The header codecs: a caller prepares a header, encodes it and hands the *)
(* bytes (cut short, as they are, or followed by more bytes) to from_bytes.*)
(***************************************************************************)
NoDec == [kind |-> "None", val |-> <<>>]

\* the bytes that follow a header in a longer input
Trailer == <<222, 173, 190, 239>>

DecodeLengths == {0, 19, 20, 21, 24}

\* the first n bytes of bytes ++ Trailer
DecodeInput(bytes, n) == SubSeq(bytes \o Trailer, 1, n)

CodecNew(type, h) ==
    [type |-> type, step |-> "new", h |-> h, bytes |-> <<>>, input |-> <<>>,
     ret |-> NoDec]

TcpFlagsChoices ==
    {TcpFlags_new,
     [TcpFlags_new EXCEPT !.syn = TRUE],
     [TcpFlags_new EXCEPT !.syn = TRUE, !.ack = TRUE],
     [TcpFlags_new EXCEPT !.fin = TRUE, !.psh = TRUE, !.urg = TRUE],
     [TcpFlags_new EXCEPT !.rst = TRUE, !.ece = TRUE, !.cwr = TRUE],
     [fin |-> TRUE, syn |-> TRUE, rst |-> TRUE, psh |-> TRUE,
      ack |-> TRUE, urg |-> TRUE, ece |-> TRUE, cwr |-> TRUE]}

\* header.<field> = <value>
TcpHeaderSettings ==
    ({"data_offset"} \X {0, 15})
    \cup ({"reserved"} \X {1, 2, 4, 7})
    \cup ({"flags"} \X TcpFlagsChoices)
    \cup ({"numbers"} \X {"max", "mixed"})

TcpHeader_set(h, a) ==
    CASE a[1] = "data_offset" -> [h EXCEPT !.data_offset = a[2]]
      [] a[1] = "reserved" -> [h EXCEPT !.reserved = a[2]]
      [] a[1] = "flags" -> [h EXCEPT !.flags = a[2]]
      [] a[1] = "numbers" /\ a[2] = "max" ->
            [h EXCEPT !.source_port = 65535, !.destination_port = 65535,
                      !.sequence_number = <<65535, 65535>>,
                      !.acknowledgment_number = <<65535, 65535>>,
                      !.window = 65535, !.checksum = 65535,
                      !.urgent_pointer = 65535]
      [] OTHER ->
            [h EXCEPT !.source_port = 443, !.destination_port = 0,
                      !.sequence_number = <<4660, 22136>>,
                      !.acknowledgment_number = <<0, 1>>,
                      !.window = 256, !.checksum = 48879,
                      !.urgent_pointer = 1]

InitTcpHeader ==
    /\ overflow_checks \in BOOLEAN
    /\ codec = CodecNew("TcpHeader", TcpHeader_new(12345, 80))
    /\ ip = Idle
    /\ ip_ret = NoRet
    /\ tcp = Idle
    /\ tcp_ret = NoRet

TcpHeaderSet ==
    /\ codec.step = "new"
    /\ \E a \in TcpHeaderSettings : codec' = [codec EXCEPT !.h = TcpHeader_set(@, a)]
    /\ UNCHANGED <<overflow_checks, ip, ip_ret, tcp, tcp_ret>>

\* let bytes = header.to_bytes()
TcpHeaderToBytes ==
    /\ codec.step = "new"
    /\ codec' = [codec EXCEPT !.step = "encoded", !.bytes = TcpHeader_to_bytes(codec.h)]
    /\ UNCHANGED <<overflow_checks, ip, ip_ret, tcp, tcp_ret>>

\* TcpHeader::from_bytes(&input)
TcpHeaderFromBytes ==
    /\ codec.step = "encoded"
    /\ \E n \in DecodeLengths :
           LET input == DecodeInput(codec.bytes, n)
           IN  codec' = [codec EXCEPT !.step = "decoded", !.input = input,
                                      !.ret = TcpHeader_from_bytes(input)]
    /\ UNCHANGED <<overflow_checks, ip, ip_ret, tcp, tcp_ret>>

NextTcpHeader == TcpHeaderSet \/ TcpHeaderToBytes \/ TcpHeaderFromBytes

SpecTcpHeader == InitTcpHeader /\ [][NextTcpHeader]_vars

Ipv4FlagsChoices ==
    {[Ipv4Flags_new EXCEPT !.reserved = TRUE],
     [Ipv4Flags_new EXCEPT !.dont_fragment = TRUE],
     [Ipv4Flags_new EXCEPT !.more_fragments = TRUE],
     [reserved |-> TRUE, dont_fragment |-> TRUE, more_fragments |-> TRUE]}

\* header.<field> = <value>
Ipv4HeaderSettings ==
    ({"version"} \X {0, 6, 15, 20})
    \cup ({"ihl"} \X {0, 4, 6, 15, 21})
    \cup ({"flags"} \X Ipv4FlagsChoices)
    \cup ({"fragment_offset"} \X {1, 4096, 8191})
    \cup ({"numbers"} \X {"max", "mixed"})

Ipv4Header_set(h, a) ==
    CASE a[1] = "version" -> [h EXCEPT !.version = a[2]]
      [] a[1] = "ihl" -> [h EXCEPT !.ihl = a[2]]
      [] a[1] = "flags" -> [h EXCEPT !.flags = a[2]]
      [] a[1] = "fragment_offset" -> [h EXCEPT !.fragment_offset = a[2]]
      [] a[1] = "numbers" /\ a[2] = "max" ->
            [h EXCEPT !.type_of_service = 255, !.total_length = 65535,
                      !.identification = 65535, !.time_to_live = 255,
                      !.protocol = 255, !.header_checksum = 65535,
                      !.source_address = <<255, 255, 255, 255>>,
                      !.destination_address = <<255, 255, 255, 255>>]
      [] OTHER ->
            [h EXCEPT !.type_of_service = 16, !.total_length = 40,
                      !.identification = 7238, !.time_to_live = 0,
                      !.protocol = 6, !.header_checksum = 48879,
                      !.source_address = <<10, 0, 0, 1>>,
                      !.destination_address = <<0, 0, 0, 0>>]

InitIpv4Header ==
    /\ overflow_checks \in BOOLEAN
    /\ codec = CodecNew("Ipv4Header",
                        Ipv4Header_new(<<192, 168, 1, 1>>, <<192, 168, 1, 100>>, 17))
    /\ ip = Idle
    /\ ip_ret = NoRet
    /\ tcp = Idle
    /\ tcp_ret = NoRet

Ipv4HeaderSet ==
    /\ codec.step = "new"
    /\ \E a \in Ipv4HeaderSettings : codec' = [codec EXCEPT !.h = Ipv4Header_set(@, a)]
    /\ UNCHANGED <<overflow_checks, ip, ip_ret, tcp, tcp_ret>>

\* let bytes = header.to_bytes()
Ipv4HeaderToBytes ==
    /\ codec.step = "new"
    /\ codec' = [codec EXCEPT !.step = "encoded", !.bytes = Ipv4Header_to_bytes(codec.h)]
    /\ UNCHANGED <<overflow_checks, ip, ip_ret, tcp, tcp_ret>>

\* Ipv4Header::from_bytes(&input)
Ipv4HeaderFromBytes ==
    /\ codec.step = "encoded"
    /\ \E n \in DecodeLengths :
           LET input == DecodeInput(codec.bytes, n)
           IN  codec' = [codec EXCEPT !.step = "decoded", !.input = input,
                                      !.ret = Ipv4Header_from_bytes(input)]
    /\ UNCHANGED <<overflow_checks, ip, ip_ret, tcp, tcp_ret>>

NextIpv4Header == Ipv4HeaderSet \/ Ipv4HeaderToBytes \/ Ipv4HeaderFromBytes

SpecIpv4Header == InitIpv4Header /\ [][NextIpv4Header]_vars

(***************************************************************************)
(* The Ethernet decoders: a caller fills a buffer and hands it to          *)
(* EthernetHeader::from_bytes or EthernetFrame::from_bytes.                *)
(***************************************************************************)
EthernetHeaders ==
    {<<255, 255, 255, 255, 255, 255, 0, 0, 0, 0, 0, 0, 8, 0>>,
     <<1, 2, 3, 4, 5, 6, 7, 8, 9, 10, 11, 12, 134, 221>>}

EthernetPayloadBytes == {0, 69, 255}

EthernetShortLengths == {0, 5, 6, 11, 12, 13}

InitEthernet ==
    /\ overflow_checks \in BOOLEAN
    /\ \E header \in EthernetHeaders :
           codec = [type |-> "Ethernet", step |-> "new", op |-> "none",
                    input |-> header, ret |-> NoDec]
    /\ ip = Idle
    /\ ip_ret = NoRet
    /\ tcp = Idle
    /\ tcp_ret = NoRet

\* buffer.push(byte)
EthernetPush ==
    /\ codec.step = "new"
    /\ Len(codec.input) >= 14
    /\ Len(codec.input) < 14 + MaxEthernetPayload
    /\ \E byte \in EthernetPayloadBytes :
           codec' = [codec EXCEPT !.input = Append(@, byte)]
    /\ UNCHANGED <<overflow_checks, ip, ip_ret, tcp, tcp_ret>>

\* buffer.resize(14 + EthernetJumbo, ..): a payload beyond any Ethernet frame size
EthernetFill ==
    /\ codec.step = "new"
    /\ Len(codec.input) = 14
    /\ codec' = [codec EXCEPT !.input = @ \o [i \in 1..EthernetJumbo |-> i % 256]]
    /\ UNCHANGED <<overflow_checks, ip, ip_ret, tcp, tcp_ret>>

\* buffer.truncate(n)
EthernetTruncate ==
    /\ codec.step = "new"
    /\ Len(codec.input) = 14
    /\ \E n \in EthernetShortLengths :
           codec' = [codec EXCEPT !.input = SubSeq(@, 1, n)]
    /\ UNCHANGED <<overflow_checks, ip, ip_ret, tcp, tcp_ret>>

\* EthernetHeader::from_bytes(&buffer)
EthernetHeaderFromBytes ==
    /\ codec.step = "new"
    /\ codec' = [codec EXCEPT !.step = "decoded", !.op = "EthernetHeader::from_bytes",
                              !.ret = EthernetHeader_from_bytes(codec.input)]
    /\ UNCHANGED <<overflow_checks, ip, ip_ret, tcp, tcp_ret>>

\* EthernetFrame::from_bytes(&buffer)
EthernetFrameFromBytes ==
    /\ codec.step = "new"
    /\ codec' = [codec EXCEPT !.step = "decoded", !.op = "EthernetFrame::from_bytes",
                              !.ret = EthernetFrame_from_bytes(codec.input)]
    /\ UNCHANGED <<overflow_checks, ip, ip_ret, tcp, tcp_ret>>

NextEthernet ==
    \/ EthernetPush
    \/ EthernetFill
    \/ EthernetTruncate
    \/ EthernetHeaderFromBytes
    \/ EthernetFrameFromBytes

SpecEthernet == InitEthernet /\ [][NextEthernet]_vars

(***************************************************************************)
(* The options decoders: a caller fills a buffer and hands it to           *)
(* Ipv4Options::from_bytes or TcpOptions::from_bytes.                      *)
(***************************************************************************)
OptionBytes == {0, 1, 2, 4, 255}

InitOptionsDecode ==
    /\ overflow_checks \in BOOLEAN
    /\ codec = [type |-> "Options", step |-> "new", op |-> "none",
                input |-> <<>>, ret |-> NoDec]
    /\ ip = Idle
    /\ ip_ret = NoRet
    /\ tcp = Idle
    /\ tcp_ret = NoRet

\* buffer.push(byte)
OptionsPush ==
    /\ codec.step = "new"
    /\ Len(codec.input) < MaxOptionBytes
    /\ \E byte \in OptionBytes : codec' = [codec EXCEPT !.input = Append(@, byte)]
    /\ UNCHANGED <<overflow_checks, ip, ip_ret, tcp, tcp_ret>>

\* Ipv4Options::from_bytes(&buffer)
Ipv4OptionsFromBytes ==
    /\ codec.step = "new"
    /\ codec' = [codec EXCEPT !.step = "decoded", !.op = "Ipv4Options::from_bytes",
                              !.ret = Ipv4Options_from_bytes(codec.input)]
    /\ UNCHANGED <<overflow_checks, ip, ip_ret, tcp, tcp_ret>>

\* TcpOptions::from_bytes(&buffer)
TcpOptionsFromBytes ==
    /\ codec.step = "new"
    /\ codec' = [codec EXCEPT !.step = "decoded", !.op = "TcpOptions::from_bytes",
                              !.ret = TcpOptions_from_bytes(codec.input)]
    /\ UNCHANGED <<overflow_checks, ip, ip_ret, tcp, tcp_ret>>

NextOptionsDecode == OptionsPush \/ Ipv4OptionsFromBytes \/ TcpOptionsFromBytes

SpecOptionsDecode == InitOptionsDecode /\ [][NextOptionsDecode]_vars

(***************************************************************************)
(* The options encoders: a caller fills an options list and asks for its   *)
(* total_length(), words_needed() and to_bytes().                          *)
(***************************************************************************)
InitIpv4Options ==
    /\ overflow_checks \in BOOLEAN
    /\ codec = [type |-> "Ipv4Options", step |-> "new", options |-> Ipv4Options_new,
                ret |-> NoDec]
    /\ ip = Idle
    /\ ip_ret = NoRet
    /\ tcp = Idle
    /\ tcp_ret = NoRet

\* options.add(option)
Ipv4OptionsAdd ==
    /\ codec.step = "new"
    /\ \/ Len(codec.options) < MaxMixed
       \/ /\ Len(codec.options) >= Ipv4OptionsRun
          /\ Len(codec.options) < Ipv4OptionsRun + MaxTail
    /\ \E option \in Ipv4Option :
           codec' = [codec EXCEPT !.options = Ipv4Options_add(@, option)]
    /\ UNCHANGED <<overflow_checks, ip, ip_ret, tcp, tcp_ret>>

\* Ipv4Options { options: vec![Ipv4Option::NoOperation; Ipv4OptionsRun] }
Ipv4OptionsSetRun ==
    /\ codec.step = "new"
    /\ codec.options = <<>>
    /\ codec' = [codec EXCEPT !.options = [i \in 1..Ipv4OptionsRun |-> "NoOperation"]]
    /\ UNCHANGED <<overflow_checks, ip, ip_ret, tcp, tcp_ret>>

\* (options.total_length(), options.words_needed(), options.to_bytes())
Ipv4OptionsEncode ==
    /\ codec.step = "new"
    /\ codec' = [codec EXCEPT
                   !.step = "encoded",
                   !.ret = [total_length |-> Ipv4Options_total_length(codec.options),
                            words_needed |-> Ipv4Options_words_needed(codec.options),
                            to_bytes |-> Ipv4Options_to_bytes(codec.options)]]
    /\ UNCHANGED <<overflow_checks, ip, ip_ret, tcp, tcp_ret>>

NextIpv4Options == Ipv4OptionsAdd \/ Ipv4OptionsSetRun \/ Ipv4OptionsEncode

SpecIpv4Options == InitIpv4Options /\ [][NextIpv4Options]_vars

InitTcpOptions ==
    /\ overflow_checks \in BOOLEAN
    /\ codec = [type |-> "TcpOptions", step |-> "new", options |-> TcpOptions_new,
                ret |-> NoDec]
    /\ ip = Idle
    /\ ip_ret = NoRet
    /\ tcp = Idle
    /\ tcp_ret = NoRet

\* options.add(option)
TcpOptionsAdd ==
    /\ codec.step = "new"
    /\ \/ Len(codec.options) < MaxMixed
       \/ /\ Len(codec.options) >= TcpOptionsRun
          /\ Len(codec.options) < TcpOptionsRun + MaxTail
    /\ \E option \in TcpOptionChoices :
           codec' = [codec EXCEPT !.options = TcpOptions_add(@, option)]
    /\ UNCHANGED <<overflow_checks, ip, ip_ret, tcp, tcp_ret>>

\* TcpOptions { options: vec![TcpOption::MaximumSegmentSize(1460); TcpOptionsRun] }
TcpOptionsSetRun ==
    /\ codec.step = "new"
    /\ codec.options = <<>>
    /\ codec' = [codec EXCEPT
                   !.options = [i \in 1..TcpOptionsRun |-> <<"MaximumSegmentSize", 1460>>]]
    /\ UNCHANGED <<overflow_checks, ip, ip_ret, tcp, tcp_ret>>

\* (options.total_length(), options.words_needed(), options.to_bytes())
TcpOptionsEncode ==
    /\ codec.step = "new"
    /\ codec' = [codec EXCEPT
                   !.step = "encoded",
                   !.ret = [total_length |-> TcpOptions_total_length(codec.options),
                            words_needed |-> TcpOptions_words_needed(codec.options),
                            to_bytes |-> TcpOptions_to_bytes(codec.options)]]
    /\ UNCHANGED <<overflow_checks, ip, ip_ret, tcp, tcp_ret>>

NextTcpOptions == TcpOptionsAdd \/ TcpOptionsSetRun \/ TcpOptionsEncode

SpecTcpOptions == InitTcpOptions /\ [][NextTcpOptions]_vars

(***************************************************************************)
(* The checksum algorithm on its own: a caller fills a buffer and has it   *)
(* summed.                                                                 *)
(***************************************************************************)
ChecksumBytes == {0, 1, 255}

InitChecksum ==
    /\ overflow_checks \in BOOLEAN
    /\ codec = [type |-> "Checksum", step |-> "new", input |-> <<>>, ret |-> NoDec]
    /\ ip = Idle
    /\ ip_ret = NoRet
    /\ tcp = Idle
    /\ tcp_ret = NoRet

\* buffer.push(byte)
ChecksumPush ==
    /\ codec.step = "new"
    /\ \/ Len(codec.input) < MaxChecksumBytes
       \/ /\ Len(codec.input) >= ChecksumZeros
          /\ Len(codec.input) < ChecksumZeros + MaxTail
    /\ \E byte \in ChecksumBytes : codec' = [codec EXCEPT !.input = Append(@, byte)]
    /\ UNCHANGED <<overflow_checks, ip, ip_ret, tcp, tcp_ret>>

\* buffer.resize(ChecksumZeros, 0)
ChecksumFill ==
    /\ codec.step = "new"
    /\ codec.input = <<>>
    /\ codec' = [codec EXCEPT !.input = zeros(ChecksumZeros)]
    /\ UNCHANGED <<overflow_checks, ip, ip_ret, tcp, tcp_ret>>

\* the chunks(2) loop, fold and complement over the buffer
ChecksumApply ==
    /\ codec.step = "new"
    /\ codec' = [codec EXCEPT !.step = "summed",
                              !.ret = checksum(codec.input, overflow_checks)]
    /\ UNCHANGED <<overflow_checks, ip, ip_ret, tcp, tcp_ret>>

NextChecksum == ChecksumPush \/ ChecksumFill \/ ChecksumApply

SpecChecksum == InitChecksum /\ [][NextChecksum]_vars

(***************************************************************************)
(* The flag codecs: a caller holds a flags value and a 16-bit value, and   *)
(* converts each into the other and back.                                  *)
(***************************************************************************)
TcpFlagNames == {"fin", "syn", "rst", "psh", "ack", "urg", "ece", "cwr"}

InitTcpFlags ==
    /\ overflow_checks \in BOOLEAN
    /\ codec = [type |-> "TcpFlags", step |-> "new", op |-> "none",
                flags |-> TcpFlags_new, value |-> 0, ret |-> NoDec]
    /\ ip = Idle
    /\ ip_ret = NoRet
    /\ tcp = Idle
    /\ tcp_ret = NoRet

\* flags.<name> = !flags.<name>, on the flags value to be encoded
TcpFlagsToggle ==
    /\ codec.step = "new"
    /\ codec.value = 0
    /\ \E name \in TcpFlagNames :
           codec' = [codec EXCEPT !.flags[name] = ~@]
    /\ UNCHANGED <<overflow_checks, ip, ip_ret, tcp, tcp_ret>>

\* value = (value << 1) | bit, on the u16 to be decoded
TcpFlagsShift ==
    /\ codec.step = "new"
    /\ codec.flags = TcpFlags_new
    /\ \E bit \in {0, 1} :
           codec' = [codec EXCEPT !.value = (2 * @ + bit) % 65536]
    /\ UNCHANGED <<overflow_checks, ip, ip_ret, tcp, tcp_ret>>

\* TcpFlags::from_u16(flags.to_u16())
TcpFlagsToU16 ==
    /\ codec.step = "new"
    /\ codec.value = 0
    /\ LET v == TcpFlags_to_u16(codec.flags)
       IN  codec' = [codec EXCEPT !.step = "done", !.op = "to_u16",
                                  !.ret = [u16 |-> v, back |-> TcpFlags_from_u16(v)]]
    /\ UNCHANGED <<overflow_checks, ip, ip_ret, tcp, tcp_ret>>

\* TcpFlags::from_u16(value).to_u16()
TcpFlagsFromU16 ==
    /\ codec.step = "new"
    /\ codec.flags = TcpFlags_new
    /\ LET f == TcpFlags_from_u16(codec.value)
       IN  codec' = [codec EXCEPT !.step = "done", !.op = "from_u16",
                                  !.ret = [flags |-> f, back |-> TcpFlags_to_u16(f)]]
    /\ UNCHANGED <<overflow_checks, ip, ip_ret, tcp, tcp_ret>>

NextTcpFlags == TcpFlagsToggle \/ TcpFlagsShift \/ TcpFlagsToU16 \/ TcpFlagsFromU16

SpecTcpFlags == InitTcpFlags /\ [][NextTcpFlags]_vars

Ipv4FlagNames == {"reserved", "dont_fragment", "more_fragments"}

InitIpv4Flags ==
    /\ overflow_checks \in BOOLEAN
    /\ codec = [type |-> "Ipv4Flags", step |-> "new", op |-> "none",
                flags |-> Ipv4Flags_new, fragment_offset |-> 0, value |-> 0,
                ret |-> NoDec]
    /\ ip = Idle
    /\ ip_ret = NoRet
    /\ tcp = Idle
    /\ tcp_ret = NoRet

\* flags.<name> = !flags.<name>, on the flags value to be encoded
Ipv4FlagsToggle ==
    /\ codec.step = "new"
    /\ codec.value = 0
    /\ \E name \in Ipv4FlagNames :
           codec' = [codec EXCEPT !.flags[name] = ~@]
    /\ UNCHANGED <<overflow_checks, ip, ip_ret, tcp, tcp_ret>>

\* fragment_offset = (fragment_offset << 1) | bit, on the u16 argument of to_u16
Ipv4FlagsShiftOffset ==
    /\ codec.step = "new"
    /\ codec.value = 0
    /\ \E bit \in {0, 1} :
           codec' = [codec EXCEPT !.fragment_offset = (2 * @ + bit) % 65536]
    /\ UNCHANGED <<overflow_checks, ip, ip_ret, tcp, tcp_ret>>

\* value = (value << 1) | bit, on the u16 to be decoded
Ipv4FlagsShiftValue ==
    /\ codec.step = "new"
    /\ codec.flags = Ipv4Flags_new
    /\ codec.fragment_offset = 0
    /\ \E bit \in {0, 1} :
           codec' = [codec EXCEPT !.value = (2 * @ + bit) % 65536]
    /\ UNCHANGED <<overflow_checks, ip, ip_ret, tcp, tcp_ret>>

\* Ipv4Flags::from_u16(flags.to_u16(fragment_offset))
Ipv4FlagsToU16 ==
    /\ codec.step = "new"
    /\ codec.value = 0
    /\ LET v == Ipv4Flags_to_u16(codec.flags, codec.fragment_offset)
       IN  codec' = [codec EXCEPT !.step = "done", !.op = "to_u16",
                                  !.ret = [u16 |-> v, back |-> Ipv4Flags_from_u16(v)]]
    /\ UNCHANGED <<overflow_checks, ip, ip_ret, tcp, tcp_ret>>

\* let (flags, offset) = Ipv4Flags::from_u16(value); flags.to_u16(offset)
Ipv4FlagsFromU16 ==
    /\ codec.step = "new"
    /\ codec.flags = Ipv4Flags_new
    /\ codec.fragment_offset = 0
    /\ LET d == Ipv4Flags_from_u16(codec.value)
       IN  codec' = [codec EXCEPT !.step = "done", !.op = "from_u16",
                                  !.ret = [decoded |-> d,
                                           back |-> Ipv4Flags_to_u16(d.flags, d.fragment_offset)]]
    /\ UNCHANGED <<overflow_checks, ip, ip_ret, tcp, tcp_ret>>

NextIpv4Flags ==
    \/ Ipv4FlagsToggle
    \/ Ipv4FlagsShiftOffset
    \/ Ipv4FlagsShiftValue
    \/ Ipv4FlagsToU16
    \/ Ipv4FlagsFromU16

SpecIpv4Flags == InitIpv4Flags /\ [][NextIpv4Flags]_vars

(***************************************************************************)
(* Options lists encoded and decoded again: a caller fills a list, calls   *)
(* to_bytes on it and hands the bytes to from_bytes.                       *)
(***************************************************************************)
\* MSS values with a zero high byte, a zero low byte and two zero bytes
TcpRoundTripChoices ==
    {<<"EndOfOptionList">>, <<"NoOperation">>, <<"MaximumSegmentSize", 1460>>,
     <<"MaximumSegmentSize", 255>>, <<"MaximumSegmentSize", 256>>,
     <<"MaximumSegmentSize", 0>>}

InitTcpRoundTrip ==
    /\ overflow_checks \in BOOLEAN
    /\ codec = [type |-> "TcpRoundTrip", step |-> "new", options |-> TcpOptions_new,
                bytes |-> <<>>, ret |-> NoDec]
    /\ ip = Idle
    /\ ip_ret = NoRet
    /\ tcp = Idle
    /\ tcp_ret = NoRet

\* options.add(option)
TcpRoundTripAdd ==
    /\ codec.step = "new"
    /\ Len(codec.options) < MaxMixed
    /\ \E option \in TcpRoundTripChoices :
           codec' = [codec EXCEPT !.options = TcpOptions_add(@, option)]
    /\ UNCHANGED <<overflow_checks, ip, ip_ret, tcp, tcp_ret>>

\* let bytes = options.to_bytes()
TcpRoundTripToBytes ==
    /\ codec.step = "new"
    /\ codec' = [codec EXCEPT !.step = "encoded",
                              !.bytes = TcpOptions_to_bytes(codec.options)]
    /\ UNCHANGED <<overflow_checks, ip, ip_ret, tcp, tcp_ret>>

\* TcpOptions::from_bytes(&bytes)
TcpRoundTripFromBytes ==
    /\ codec.step = "encoded"
    /\ codec' = [codec EXCEPT !.step = "decoded",
                              !.ret = TcpOptions_from_bytes(codec.bytes)]
    /\ UNCHANGED <<overflow_checks, ip, ip_ret, tcp, tcp_ret>>

NextTcpRoundTrip == TcpRoundTripAdd \/ TcpRoundTripToBytes \/ TcpRoundTripFromBytes

SpecTcpRoundTrip == InitTcpRoundTrip /\ [][NextTcpRoundTrip]_vars

InitIpv4RoundTrip ==
    /\ overflow_checks \in BOOLEAN
    /\ codec = [type |-> "Ipv4RoundTrip", step |-> "new", options |-> Ipv4Options_new,
                bytes |-> <<>>, ret |-> NoDec]
    /\ ip = Idle
    /\ ip_ret = NoRet
    /\ tcp = Idle
    /\ tcp_ret = NoRet

\* options.add(option)
Ipv4RoundTripAdd ==
    /\ codec.step = "new"
    /\ Len(codec.options) < MaxIpv4RoundTrip
    /\ \E option \in Ipv4Option :
           codec' = [codec EXCEPT !.options = Ipv4Options_add(@, option)]
    /\ UNCHANGED <<overflow_checks, ip, ip_ret, tcp, tcp_ret>>

\* let bytes = options.to_bytes()
Ipv4RoundTripToBytes ==
    /\ codec.step = "new"
    /\ codec' = [codec EXCEPT !.step = "encoded",
                              !.bytes = Ipv4Options_to_bytes(codec.options)]
    /\ UNCHANGED <<overflow_checks, ip, ip_ret, tcp, tcp_ret>>

\* Ipv4Options::from_bytes(&bytes)
Ipv4RoundTripFromBytes ==
    /\ codec.step = "encoded"
    /\ codec' = [codec EXCEPT !.step = "decoded",
                              !.ret = Ipv4Options_from_bytes(codec.bytes)]
    /\ UNCHANGED <<overflow_checks, ip, ip_ret, tcp, tcp_ret>>

NextIpv4RoundTrip == Ipv4RoundTripAdd \/ Ipv4RoundTripToBytes \/ Ipv4RoundTripFromBytes

SpecIpv4RoundTrip == InitIpv4RoundTrip /\ [][NextIpv4RoundTrip]_vars

(***************************************************************************)
(* Reference definitions the properties are stated against.                *)
(***************************************************************************)
\* the byte sequence s followed by the fewest zero bytes that make its length
\* a multiple of 4
RefPad4(s) == s \o [i \in 1..((4 - (Len(s) % 4)) % 4) |-> 0]

\* one byte per IPv4 option, in insertion order
RefIpv4OptionBytes(options) ==
    [i \in 1..Len(options) |-> IF options[i] = "EndOfOptionsList" THEN 0 ELSE 1]

RefIpv4Encoded(options) == RefPad4(RefIpv4OptionBytes(options))

\* RFC 1071: the 16-bit one's complement of the one's complement sum of the
\* big-endian 16-bit words, an odd last byte padded with a zero low byte
RefWord(bytes, k) ==
    bytes[2 * k - 1] * 256 + (IF 2 * k <= Len(bytes) THEN bytes[2 * k] ELSE 0)

\* one's complement addition: the carry out of bit 15 is added back in
RefOnesAdd(a, b) == IF a + b > 65535 THEN a + b - 65535 ELSE a + b

RECURSIVE RefOnesSum(_, _, _)
RefOnesSum(bytes, lo, hi) ==
    IF lo > hi THEN 0
    ELSE IF lo = hi THEN RefWord(bytes, lo)
    ELSE LET mid == (lo + hi) \div 2
         IN  RefOnesAdd(RefOnesSum(bytes, lo, mid), RefOnesSum(bytes, mid + 1, hi))

RefChecksum(bytes) == 65535 - RefOnesSum(bytes, 1, (Len(bytes) + 1) \div 2)

IpBuilt == ip_ret.op = "to_bytes" /\ ip_ret.kind = "Bytes"

(***************************************************************************)
(* Properties of Ipv4Packet.                                               *)
(***************************************************************************)
\* C1: every call to Ipv4Packet::to_bytes leaves header.ihl = 5 + W and
\* header.total_length = (5 + W) * 4 + P, W the words of the encoded options
\* and P the payload length, for every options list and every payload.
C1_IhlAndTotalLength ==
    ip_ret.op = "to_bytes" =>
        LET W == Len(RefIpv4Encoded(ip.options)) \div 4
            P == Len(ip.payload)
        IN  /\ ip.header.ihl = 5 + W
            /\ ip.header.total_length = (5 + W) * 4 + P

\* C1 where the derived values fit their fields: 5 + W in 8 bits and
\* (5 + W) * 4 + P in 16 bits
C1_InRange ==
    ip_ret.op = "to_bytes" =>
        LET W == Len(RefIpv4Encoded(ip.options)) \div 4
            P == Len(ip.payload)
        IN  (5 + W <= 255 /\ (5 + W) * 4 + P <= 65535) =>
                /\ ip_ret.kind = "Bytes"
                /\ ip.header.ihl = 5 + W
                /\ ip.header.total_length = (5 + W) * 4 + P

\* C2: after to_bytes the header_checksum field and bytes 10..11 of the output
\* both equal the Internet checksum of the 20 header bytes (updated IHL and
\* total length, bytes 10..11 zeroed) followed by the encoded options bytes,
\* whatever the checksum field held before the call.
C2_HeaderChecksum ==
    IpBuilt =>
        LET header_bytes == Ipv4Header_to_bytes(ip.header)
            expected == RefChecksum([header_bytes EXCEPT ![11] = 0, ![12] = 0]
                                    \o RefIpv4Encoded(ip.options))
        IN  /\ ip.header.header_checksum = expected
            /\ ip_ret.val[11] * 256 + ip_ret.val[12] = expected
            /\ header_bytes[1] % 16 = (5 + Len(RefIpv4Encoded(ip.options)) \div 4) % 16
            /\ header_bytes[3] * 256 + header_bytes[4] = ip.header.total_length

\* a packet built with options while its checksum field held a stale non-zero
\* value that is not the checksum
C2_Witness ==
    /\ IpBuilt
    /\ ip.options # <<>>
    /\ ip_ret.pre.header.header_checksum = 4660
    /\ ip.header.header_checksum \notin {0, 4660}

\* C3: the bytes returned by to_bytes are the 20 header bytes (checksum set),
\* then the options bytes padded to a multiple of 4, then the payload bytes
\* unchanged and in order; the length is 20 + options + payload.
C3_Layout ==
    IpBuilt =>
        LET out == ip_ret.val
            opts == RefIpv4Encoded(ip.options)
        IN  /\ Len(out) = 20 + Len(opts) + Len(ip.payload)
            /\ SubSeq(out, 1, 20) = Ipv4Header_to_bytes(ip.header)
            /\ out[11] * 256 + out[12] = ip.header.header_checksum
            /\ SubSeq(out, 21, 20 + Len(opts)) = opts
            /\ SubSeq(out, 21 + Len(opts), Len(out)) = ip_ret.pre.payload
            /\ ip.payload = ip_ret.pre.payload

\* a packet built with options that needed padding and a payload
C3_Witness ==
    /\ IpBuilt
    /\ Len(ip.options) % 4 = 2
    /\ Len(ip.payload) = 3
    /\ Len(ip_ret.val) = 27


(***************************************************************************)
(* TCP segments                                                            *)
(***************************************************************************)
\* the wire form of one TCP option, from RFC 9293 section 3.1
RefTcpOptionBytes(option) ==
    IF option[1] = "EndOfOptionList" THEN <<0>>
    ELSE IF option[1] = "NoOperation" THEN <<1>>
    ELSE <<2, 4, option[2] \div 256, option[2] % 256>>

\* the wire forms of options[lo..hi], one after the other
RECURSIVE RefTcpOptionsBytesRange(_, _, _)
RefTcpOptionsBytesRange(options, lo, hi) ==
    IF lo > hi THEN <<>>
    ELSE IF lo = hi THEN RefTcpOptionBytes(options[lo])
    ELSE RefTcpOptionsBytesRange(options, lo, (lo + hi) \div 2)
         \o RefTcpOptionsBytesRange(options, (lo + hi) \div 2 + 1, hi)

RefTcpOptionsBytes(options) == RefTcpOptionsBytesRange(options, 1, Len(options))

RefTcpEncoded(options) == RefPad4(RefTcpOptionsBytes(options))

TcpBuilt4 == tcp_ret.op = "to_bytes_ipv4" /\ tcp_ret.kind = "Bytes"

TcpBuilt6 == tcp_ret.op = "to_bytes_ipv6" /\ tcp_ret.kind = "Bytes"

\* the 20 header bytes of a built segment with bytes 16..17 zeroed, the
\* options bytes and the payload bytes
RefTcpSegmentZeroed ==
    [SubSeq(tcp_ret.val, 1, 20) EXCEPT ![17] = 0, ![18] = 0]
    \o RefTcpEncoded(tcp.options)
    \o tcp.payload

RefTcpSegmentLength == 20 + Len(RefTcpEncoded(tcp.options)) + Len(tcp.payload)

\* C4: after any sequence of options.add calls, each to_bytes_ipv4 or
\* to_bytes_ipv6 leaves header.data_offset = 5 + W, W the number of 32-bit
\* words of the encoded options, and the high nibble of output byte 12
\* carries that same value, for every options list.
C4_DataOffset ==
    (TcpBuilt4 \/ TcpBuilt6) =>
        LET W == Len(RefTcpEncoded(tcp.options)) \div 4
        IN  /\ tcp.header.data_offset = 5 + W
            /\ tcp_ret.val[13] \div 16 = 5 + W

\* C4, on the lists whose header length fits the 4-bit field: 5 + W <= 15.
C4_InRange ==
    (TcpBuilt4 \/ TcpBuilt6) =>
        LET W == Len(RefTcpEncoded(tcp.options)) \div 4
        IN  5 + W <= 15 =>
                /\ tcp.header.data_offset = 5 + W
                /\ tcp_ret.val[13] \div 16 = 5 + W

TcpDecoded == codec.type = "TcpHeader" /\ codec.step = "decoded"

Ipv4Decoded == codec.type = "Ipv4Header" /\ codec.step = "decoded"

\* C7: for every TcpHeader H whose fields fit their wire widths (data_offset
\* 0..15, reserved 0..7), TcpHeader::from_bytes(H.to_bytes()) equals H in
\* every field, including reserved.
C7_TcpHeaderRoundTrip ==
    (/\ TcpDecoded
     /\ codec.input = codec.bytes
     /\ codec.h.data_offset \in 0..15
     /\ codec.h.reserved \in 0..7)
    => (codec.ret.kind = "Value" /\ codec.ret.val = codec.h)

\* C7, without the reserved field: every other field comes back as it was
\* written, and reserved comes back as the written value shifted right by one.
C7_ExceptReserved ==
    (/\ TcpDecoded
     /\ codec.input = codec.bytes
     /\ codec.h.data_offset \in 0..15
     /\ codec.h.reserved \in 0..7)
    => /\ codec.ret.kind = "Value"
       /\ codec.ret.val = [codec.h EXCEPT !.reserved = codec.h.reserved \div 2]

\* C8: for every Ipv4Header H with version = 4, ihl in 5..15 and
\* fragment_offset in 0..0x1FFF, Ipv4Header::from_bytes(H.to_bytes()) is Ok
\* with a header equal to H in every field.
C8_Ipv4HeaderRoundTrip ==
    (/\ Ipv4Decoded
     /\ codec.input = codec.bytes
     /\ codec.h.version = 4
     /\ codec.h.ihl \in 5..15
     /\ codec.h.fragment_offset \in 0..8191)
    => (codec.ret.kind = "Ok" /\ codec.ret.val = codec.h)

C8_Witness ==
    /\ Ipv4Decoded
    /\ codec.input = codec.bytes
    /\ codec.h.version = 4
    /\ codec.h.ihl = 15
    /\ codec.h.fragment_offset = 8191
    /\ codec.h.flags = [reserved |-> FALSE, dont_fragment |-> TRUE,
                        more_fragments |-> FALSE]
    /\ codec.h.total_length = 65535
    /\ codec.ret.kind = "Ok"
    /\ codec.ret.val = codec.h

\* C9: TcpHeader::from_bytes given fewer than 20 bytes reports the
\* insufficient length to its caller as an error value the caller can
\* recover from, not by aborting the call chain, and produces no header.
C9_ShortInputIsAnError ==
    (TcpDecoded /\ Len(codec.input) < 20) => codec.ret.kind = "Err"

\* C9, as far as the code goes: a short input is never read past its end and
\* never yields a header.
C9_ShortInputYieldsNoHeader ==
    (TcpDecoded /\ Len(codec.input) < 20) => codec.ret.kind # "Value"

\* the three failures of Ipv4Header::from_bytes, as it reports them
Ipv4DecodeErrors ==
    [length |-> Ipv4Header_from_bytes(<<>>).val,
     version |-> Ipv4Header_from_bytes(<<101>> \o zeros(19)).val,
     ihl |-> Ipv4Header_from_bytes(<<68>> \o zeros(19)).val]

\* C10: Ipv4Header::from_bytes returns an error for fewer than 20 bytes, for a
\* high nibble of byte 0 other than 4 and for a low nibble of byte 0 below 5,
\* each with its own error value; every other input succeeds, whatever the
\* reserved flag bit, the bytes after the first 20, and the IHL and
\* total-length it carries.
C10_Ipv4DecodeErrors ==
    /\ Cardinality({Ipv4DecodeErrors.length, Ipv4DecodeErrors.version,
                    Ipv4DecodeErrors.ihl}) = 3
    /\ Ipv4Decoded =>
         LET b == codec.input
             r == codec.ret
         IN  IF Len(b) < 20
             THEN r = [kind |-> "Err", val |-> Ipv4DecodeErrors.length]
             ELSE IF b[1] \div 16 # 4
             THEN r = [kind |-> "Err", val |-> Ipv4DecodeErrors.version]
             ELSE IF b[1] % 16 < 5
             THEN r = [kind |-> "Err", val |-> Ipv4DecodeErrors.ihl]
             ELSE r.kind = "Ok"

C10_Witness ==
    /\ Ipv4Decoded
    /\ Len(codec.input) = 24
    /\ codec.input[1] = 69
    /\ codec.input[7] >= 128
    /\ u16_from_be_bytes(codec.input[3], codec.input[4]) = 65535
    /\ codec.ret.kind = "Ok"
    /\ codec.ret.val.flags.reserved

(***************************************************************************)
(* Ethernet                                                                *)
(***************************************************************************)
EthernetDecoded == codec.type = "Ethernet" /\ codec.step = "decoded"

\* C11: EthernetHeader::from_bytes and EthernetFrame::from_bytes, given fewer
\* than 14 bytes, report a malformed-input-length decode failure to the
\* caller instead of decoding or aborting.
C11_ShortFrameIsAnError ==
    (EthernetDecoded /\ Len(codec.input) < 14) => codec.ret.kind = "Err"

\* C11, as far as the code goes: fewer than 14 bytes never yield a header or
\* a frame.
C11_ShortFrameYieldsNothing ==
    (EthernetDecoded /\ Len(codec.input) < 14) => codec.ret.kind # "Value"

\* C12: for every input of at least 14 bytes, EthernetFrame::from_bytes
\* yields destination = bytes[0..6], source = bytes[6..12], type tag =
\* bytes[12..14] and payload = bytes[14..] (possibly empty), so that
\* destination ++ source ++ tag ++ payload is the input; no minimum or
\* maximum frame size is enforced.
C12_FrameFields ==
    (/\ EthernetDecoded
     /\ codec.op = "EthernetFrame::from_bytes"
     /\ Len(codec.input) >= 14)
    => /\ codec.ret.kind = "Value"
       /\ LET f == codec.ret.val
              b == codec.input
          IN  /\ f.header.destination_mac_address = <<b[1], b[2], b[3], b[4], b[5], b[6]>>
              /\ f.header.source_mac_address = <<b[7], b[8], b[9], b[10], b[11], b[12]>>
              /\ f.header.ethertype = <<b[13], b[14]>>
              /\ Len(f.payload) = Len(b) - 14
              /\ \A i \in 1..Len(f.payload) : f.payload[i] = b[14 + i]
              /\ f.header.destination_mac_address \o f.header.source_mac_address
                 \o f.header.ethertype \o f.payload = b

C12_Witness ==
    /\ EthernetDecoded
    /\ codec.op = "EthernetFrame::from_bytes"
    /\ Len(codec.input) = 14 + EthernetJumbo
    /\ codec.ret.kind = "Value"
    /\ Len(codec.ret.val.payload) = EthernetJumbo
    /\ codec.ret.val.header.ethertype = <<134, 221>>

(***************************************************************************)
(* Options decoders                                                        *)
(***************************************************************************)
Ipv4OptionsDecoded ==
    /\ codec.type = "Options"
    /\ codec.step = "decoded"
    /\ codec.op = "Ipv4Options::from_bytes"

TcpOptionsDecoded ==
    /\ codec.type = "Options"
    /\ codec.step = "decoded"
    /\ codec.op = "TcpOptions::from_bytes"

\* the position (1-based) of the first zero byte of b, Len(b) + 1 if none
RefFirstZero(b) ==
    IF \E i \in 1..Len(b) : b[i] = 0
    THEN CHOOSE i \in 1..Len(b) : b[i] = 0 /\ \A j \in 1..(i - 1) : b[j] # 0
    ELSE Len(b) + 1

\* C13: Ipv4Options::from_bytes stops at the first EndOfOptionsList it
\* consumes: the result holds at most one EndOfOptionsList and only as its
\* last element, the bytes after it are never inspected, and an all-zero
\* input of any length N >= 1 decodes to exactly one EndOfOptionsList.
C13_StopsAtEndOfOptionsList ==
    Ipv4OptionsDecoded =>
        LET b == codec.input
            z == RefFirstZero(b)
            k == IF z <= Len(b) THEN z ELSE Len(b)
            r == codec.ret
        IN  /\ r = Ipv4Options_from_bytes(SubSeq(b, 1, k))
            /\ r.kind = "Ok" =>
                 /\ \A i \in 1..Len(r.val) :
                        r.val[i] = "EndOfOptionsList" => i = Len(r.val)
                 /\ Len(r.val) = k
                 /\ \A i \in 1..Len(r.val) :
                        r.val[i] = IF b[i] = 0 THEN "EndOfOptionsList" ELSE "NoOperation"
            /\ (b # <<>> /\ \A i \in 1..Len(b) : b[i] = 0)
                 => r = [kind |-> "Ok", val |-> <<"EndOfOptionsList">>]

C13_Witness ==
    /\ Ipv4OptionsDecoded
    /\ codec.input = <<1, 0, 255, 0, 1>>
    /\ codec.ret = [kind |-> "Ok", val |-> <<"NoOperation", "EndOfOptionsList">>]

\* the unknown-option-type failure, as Ipv4Options::from_bytes reports it
Ipv4UnknownOptionError == Ipv4Options_from_bytes(<<7>>)

\* C14: Ipv4Options::from_bytes returns an unknown-option-type error, and no
\* partial options list, whenever a byte other than 0 or 1 occurs before the
\* first zero byte of the input; it returns Ok for every other input,
\* including the empty input.
C14_UnknownOptionType ==
    /\ Ipv4UnknownOptionError.kind = "Err"
    /\ Ipv4OptionsDecoded =>
        LET b == codec.input
            z == RefFirstZero(b)
        IN  IF \E i \in 1..(z - 1) : b[i] \notin {0, 1}
            THEN codec.ret = Ipv4UnknownOptionError
            ELSE codec.ret.kind = "Ok"

C14_Witness ==
    /\ Ipv4OptionsDecoded
    /\ codec.input = <<1, 1, 255, 0>>
    /\ codec.ret.kind = "Err"

\* C15: TcpOptions::from_bytes treats a zero byte at an option boundary as
\* the start of padding: the scan ends there, nothing after it is inspected,
\* and the zero is not decoded as an option, so the returned list never
\* contains EndOfOptionList.
C15_ZeroIsPadding ==
    (TcpOptionsDecoded /\ codec.ret.kind = "Ok") =>
        LET b == codec.input
            options == codec.ret.val
            n == Len(RefTcpOptionsBytes(options))
        IN  /\ \A i \in 1..Len(options) : options[i][1] # "EndOfOptionList"
            /\ n <= Len(b)
            /\ SubSeq(b, 1, n) = RefTcpOptionsBytes(options)
            /\ n < Len(b) => b[n + 1] = 0
            /\ codec.ret = TcpOptions_from_bytes(SubSeq(b, 1, n))

C15_Witness ==
    /\ TcpOptionsDecoded
    /\ codec.input = <<1, 0, 255, 2, 1>>
    /\ codec.ret = [kind |-> "Ok", val |-> <<(<<"NoOperation">>)>>]

\* what a scan of b from an option boundary meets first: "ok" for the end of
\* the input or a padding zero, else the kind of malformed option
RECURSIVE RefTcpScan(_)
RefTcpScan(b) ==
    IF b = <<>> THEN "ok"
    ELSE IF b[1] = 0 THEN "ok"
    ELSE IF b[1] = 1 THEN RefTcpScan(Tail(b))
    ELSE IF b[1] = 2
    THEN IF Len(b) < 4 THEN "truncated"
         ELSE IF b[2] # 4 THEN "length"
         ELSE RefTcpScan(SubSeq(b, 5, Len(b)))
    ELSE "kind"

\* the three failures of TcpOptions::from_bytes, as it reports them
TcpDecodeErrors ==
    [truncated |-> TcpOptions_from_bytes(<<2, 4, 5>>),
     length |-> TcpOptions_from_bytes(<<2, 3, 5, 180>>),
     kind |-> TcpOptions_from_bytes(<<255>>)]

\* C16: TcpOptions::from_bytes returns an error, and no partial list, when
\* before the first padding zero an option boundary holds kind 2 with fewer
\* than 4 bytes remaining, kind 2 with a length byte other than 4, or a kind
\* other than 0, 1, 2; the three cases give distinct error values, and an MSS
\* option with length 4 decodes to the big-endian value of its last two bytes.
C16_TcpOptionErrors ==
    /\ \A c \in {"truncated", "length", "kind"} : TcpDecodeErrors[c].kind = "Err"
    /\ Cardinality({TcpDecodeErrors.truncated, TcpDecodeErrors.length,
                    TcpDecodeErrors.kind}) = 3
    /\ TcpOptionsDecoded =>
        LET b == codec.input
            r == codec.ret
            c == RefTcpScan(b)
        IN  IF c # "ok"
            THEN r = TcpDecodeErrors[c]
            ELSE /\ r.kind = "Ok"
                 /\ LET n == Len(RefTcpOptionsBytes(r.val))
                    IN  \A i \in 1..(IF n < Len(b) THEN n ELSE Len(b)) :
                            RefTcpOptionsBytes(r.val)[i] = b[i]

C16_Witness ==
    /\ TcpOptionsDecoded
    /\ codec.input = <<1, 2, 4, 255, 1>>
    /\ codec.ret = [kind |-> "Ok",
                    val |-> <<(<<"NoOperation">>), (<<"MaximumSegmentSize", 65281>>)>>]

(***************************************************************************)
(* Options encoders                                                        *)
(***************************************************************************)
TcpOptionsEncoded == codec.type = "TcpOptions" /\ codec.step = "encoded"

Ipv4OptionsEncoded == codec.type = "Ipv4Options" /\ codec.step = "encoded"

\* n rounded up to the next multiple of 4
RefRoundUp4(n) == 4 * ((n + 3) \div 4)

\* C17: for every TCP options list, TcpOptions::to_bytes is the concatenation
\* of the options' encodings in insertion order followed by 0 to 3 zero
\* bytes, and its length is a multiple of 4 equal to 4 * words_needed() =
\* 4 * ceil(total_length() / 4), total_length() being the unpadded sum of the
\* option lengths.
C17_TcpOptionsEncoding ==
    TcpOptionsEncoded =>
        LET plain == RefTcpOptionsBytes(codec.options)
            r == codec.ret
        IN  /\ r.total_length = Len(plain)
            /\ r.to_bytes = RefPad4(plain)
            /\ Len(r.to_bytes) % 4 = 0
            /\ Len(r.to_bytes) = 4 * r.words_needed
            /\ Len(r.to_bytes) = RefRoundUp4(r.total_length)

\* C17, on the lists whose padded length is at most 255 words.
C17_InRange ==
    (TcpOptionsEncoded /\ Len(RefTcpOptionsBytes(codec.options)) <= 1020) =>
        LET plain == RefTcpOptionsBytes(codec.options)
            r == codec.ret
        IN  /\ r.total_length = Len(plain)
            /\ r.to_bytes = RefPad4(plain)
            /\ Len(r.to_bytes) = 4 * r.words_needed
            /\ Len(r.to_bytes) = RefRoundUp4(r.total_length)

\* C18: for every IPv4 options list of n options, Ipv4Options::to_bytes is
\* the n option bytes in insertion order followed by the fewest zero bytes
\* that make the length a multiple of 4, and total_length() =
\* to_bytes().len() = 4 * words_needed() = n rounded up to the next multiple
\* of 4.
C18_Ipv4OptionsEncoding ==
    Ipv4OptionsEncoded =>
        LET n == Len(codec.options)
            r == codec.ret
        IN  /\ r.to_bytes = RefIpv4OptionBytes(codec.options) \o zeros(RefRoundUp4(n) - n)
            /\ r.total_length = RefRoundUp4(n)
            /\ Len(r.to_bytes) = RefRoundUp4(n)
            /\ 4 * r.words_needed = RefRoundUp4(n)

\* C18, on the lists of at most 1020 options (255 words).
C18_InRange ==
    (Ipv4OptionsEncoded /\ Len(codec.options) <= 1020) =>
        LET n == Len(codec.options)
            r == codec.ret
        IN  /\ r.to_bytes = RefIpv4OptionBytes(codec.options) \o zeros(RefRoundUp4(n) - n)
            /\ r.total_length = RefRoundUp4(n)
            /\ 4 * r.words_needed = RefRoundUp4(n)

(***************************************************************************)
(* Checksum                                                                *)
(***************************************************************************)
ChecksumApplied == codec.type = "Checksum" /\ codec.step = "summed"

\* C19: the checksum algorithm of the packet assemblers returns 0xFFFF for
\* the empty input and for every all-zero input of any length, and never
\* 0x0000 for such input.
C19_ZeroInput ==
    (ChecksumApplied /\ \A i \in 1..Len(codec.input) : codec.input[i] = 0)
    => /\ codec.ret.ok
       /\ codec.ret.val = 65535
       /\ codec.ret.val # 0

C19_Witness ==
    /\ ChecksumApplied
    /\ Len(codec.input) = ChecksumZeros + 1
    /\ \A i \in 1..Len(codec.input) : codec.input[i] = 0
    /\ codec.ret.val = 65535

(***************************************************************************)
(* Frame conditions                                                        *)
(***************************************************************************)
IpReadOnlyOps == {"header.to_bytes", "options.to_bytes", "calculate_header_checksum"}

TcpReadOnlyOps ==
    {"header.to_bytes", "options.to_bytes", "calculate_checksum_ipv4",
     "calculate_checksum_ipv6"}

\* C20: building a packet changes only the derived header fields:
\* Ipv4Packet::to_bytes at most header.ihl, header.total_length and
\* header.header_checksum, TcpPacket::to_bytes_ipv4 / to_bytes_ipv6 at most
\* header.data_offset and header.checksum; every other header field, the
\* options and the payload stay as they were, and the read-only operations
\* change nothing.
C20_OnlyDerivedFieldsChange ==
    /\ ip_ret.op = "to_bytes" =>
         ip = [ip_ret.pre EXCEPT !.header.ihl = ip.header.ihl,
                                 !.header.total_length = ip.header.total_length,
                                 !.header.header_checksum = ip.header.header_checksum]
    /\ tcp_ret.op \in {"to_bytes_ipv4", "to_bytes_ipv6"} =>
         tcp = [tcp_ret.pre EXCEPT !.header.data_offset = tcp.header.data_offset,
                                   !.header.checksum = tcp.header.checksum]
    /\ ip_ret.op \in IpReadOnlyOps => ip = ip_ret.pre
    /\ tcp_ret.op \in TcpReadOnlyOps => tcp = tcp_ret.pre

C20_Witness ==
    /\ ip_ret.op = "to_bytes"
    /\ ip_ret.kind = "Bytes"
    /\ ip_ret.pre.header.ihl = 15
    /\ ip_ret.pre.header.time_to_live = 1
    /\ ip_ret.pre.header.flags.more_fragments
    /\ Len(ip.options) = 5
    /\ ip.header.ihl = 7
    /\ ip.header.total_length = 31
    /\ ip.header.header_checksum # ip_ret.pre.header.header_checksum

(***************************************************************************)
(* Flag codecs                                                             *)
(***************************************************************************)
\* the bit of each TCP flag in byte 13 (RFC 9293 section 3.1)
RefTcpFlagBit ==
    [fin |-> 1, syn |-> 2, rst |-> 4, psh |-> 8,
     ack |-> 16, urg |-> 32, ece |-> 64, cwr |-> 128]

\* bit b (a power of two) of v is set
RefBitSet(v, b) == (v \div b) % 2 = 1

\* C21: TcpFlags::to_u16 maps the eight flags to the distinct bits FIN=0x01,
\* SYN=0x02, RST=0x04, PSH=0x08, ACK=0x10, URG=0x20, ECE=0x40, CWR=0x80 and
\* sets no other bit; from_u16(to_u16(f)) = f for every flag combination f,
\* and to_u16(from_u16(v)) = v & 0xFF for every 16-bit v.
C21_TcpFlagBits ==
    /\ (codec.type = "TcpFlags" /\ codec.op = "to_u16") =>
         /\ codec.ret.u16 \in 0..255
         /\ \A name \in TcpFlagNames :
                RefBitSet(codec.ret.u16, RefTcpFlagBit[name]) <=> codec.flags[name]
         /\ codec.ret.back = codec.flags
    /\ (codec.type = "TcpFlags" /\ codec.op = "from_u16") =>
         codec.ret.back = codec.value % 256

C21_Witness ==
    /\ codec.type = "TcpFlags"
    /\ codec.op = "from_u16"
    /\ codec.value = 43981
    /\ codec.ret.back = 205

\* the bit of each IPv4 flag in the flags/fragment-offset word (RFC 791)
RefIpv4FlagBit == [reserved |-> 32768, dont_fragment |-> 16384, more_fragments |-> 8192]

\* C22: Ipv4Flags::to_u16 places reserved at bit 15, DF at bit 14, MF at bit 13
\* and the fragment offset masked to the low 13 bits, so no offset alters a
\* flag bit; from_u16(to_u16(f, o)) = (f, o & 0x1FFF) for every f and o, and
\* to_u16(from_u16(v)) = v for every 16-bit v.
C22_Ipv4FlagBits ==
    /\ (codec.type = "Ipv4Flags" /\ codec.op = "to_u16") =>
         /\ codec.ret.u16 \in 0..65535
         /\ \A name \in Ipv4FlagNames :
                RefBitSet(codec.ret.u16, RefIpv4FlagBit[name]) <=> codec.flags[name]
         /\ codec.ret.u16 % 8192 = codec.fragment_offset % 8192
         /\ codec.ret.back = [flags |-> codec.flags,
                              fragment_offset |-> codec.fragment_offset % 8192]
    /\ (codec.type = "Ipv4Flags" /\ codec.op = "from_u16") =>
         codec.ret.back = codec.value

\* an offset with all sixteen bits set, encoded with no flag set
C22_Witness ==
    /\ codec.type = "Ipv4Flags"
    /\ codec.op = "to_u16"
    /\ codec.fragment_offset = 65535
    /\ codec.flags = Ipv4Flags_new
    /\ codec.ret.u16 = 8191

(***************************************************************************)
(* TCP header layout                                                       *)
(***************************************************************************)
\* the sum of the bits of the flags that are set
RefTcpFlagsByte(flags) ==
    (IF flags.fin THEN 1 ELSE 0) + (IF flags.syn THEN 2 ELSE 0)
    + (IF flags.rst THEN 4 ELSE 0) + (IF flags.psh THEN 8 ELSE 0)
    + (IF flags.ack THEN 16 ELSE 0) + (IF flags.urg THEN 32 ELSE 0)
    + (IF flags.ece THEN 64 ELSE 0) + (IF flags.cwr THEN 128 ELSE 0)

\* the 20 bytes of a header, field by field
RefTcpHeaderBytes(h) ==
    <<h.source_port \div 256, h.source_port % 256,
      h.destination_port \div 256, h.destination_port % 256,
      h.sequence_number[1] \div 256, h.sequence_number[1] % 256,
      h.sequence_number[2] \div 256, h.sequence_number[2] % 256,
      h.acknowledgment_number[1] \div 256, h.acknowledgment_number[1] % 256,
      h.acknowledgment_number[2] \div 256, h.acknowledgment_number[2] % 256,
      (h.data_offset % 16) * 16 + (h.reserved % 8),
      RefTcpFlagsByte(h.flags),
      h.window \div 256, h.window % 256,
      h.checksum \div 256, h.checksum % 256,
      h.urgent_pointer \div 256, h.urgent_pointer % 256>>

\* the header whose fields sit in the first 20 bytes of b, with the reserved
\* field taken from the bits from which reserved(b[13]) takes it
RefTcpHeaderAt(b, reserved(_)) ==
    [source_port |-> b[1] * 256 + b[2],
     destination_port |-> b[3] * 256 + b[4],
     sequence_number |-> <<b[5] * 256 + b[6], b[7] * 256 + b[8]>>,
     acknowledgment_number |-> <<b[9] * 256 + b[10], b[11] * 256 + b[12]>>,
     data_offset |-> b[13] \div 16,
     reserved |-> reserved(b[13]),
     flags |-> [name \in TcpFlagNames |-> RefBitSet(b[14], RefTcpFlagBit[name])],
     window |-> b[15] * 256 + b[16],
     checksum |-> b[17] * 256 + b[18],
     urgent_pointer |-> b[19] * 256 + b[20]]

\* bits 0..2 of byte 12, where to_bytes puts the reserved field
RefReservedLowThree(byte) == byte % 8

\* bits 1..3 of byte 12
RefReservedBitsOneToThree(byte) == (byte % 16) \div 2

TcpEncoded == codec.type = "TcpHeader" /\ codec.step \in {"encoded", "decoded"}

\* C23: TcpHeader::to_bytes always yields exactly 20 bytes: ports (0..3),
\* sequence number (4..7), acknowledgment number (8..11), byte 12 = data
\* offset in the high nibble and the three reserved bits in bits 0..2 with
\* bit 3 zero, byte 13 = the flag bits, window (14..15), checksum (16..17),
\* urgent pointer (18..19); and TcpHeader::from_bytes reads each field,
\* reserved included, from the same bit positions.
C23_SameBitPositions ==
    /\ TcpEncoded =>
         /\ Len(codec.bytes) = 20
         /\ codec.bytes = RefTcpHeaderBytes(codec.h)
         /\ (codec.bytes[13] \div 8) % 2 = 0
    /\ (TcpDecoded /\ Len(codec.input) >= 20) =>
         /\ codec.ret.kind = "Value"
         /\ codec.ret.val = RefTcpHeaderAt(codec.input, RefReservedLowThree)

\* C23, as the code has it: the layout written is the one stated, and every
\* field is read from where it was written except reserved, which is read
\* from bits 1..3 of byte 12.
C23_ReservedReadOneBitHigher ==
    /\ TcpEncoded =>
         /\ Len(codec.bytes) = 20
         /\ codec.bytes = RefTcpHeaderBytes(codec.h)
         /\ (codec.bytes[13] \div 8) % 2 = 0
    /\ (TcpDecoded /\ Len(codec.input) >= 20) =>
         /\ codec.ret.kind = "Value"
         /\ codec.ret.val = RefTcpHeaderAt(codec.input, RefReservedBitsOneToThree)

(***************************************************************************)
(* Arithmetic of the builders                                              *)
(***************************************************************************)
\* the exact number of 32-bit words of the encoded options
RefIpv4OptionWords(options) == Len(RefIpv4Encoded(options)) \div 4

\* C24: serialization never fails: for every options list and every payload
\* length the to_bytes functions complete with every intermediate value
\* inside the range of its integer type (5 + words_needed in 8 bits,
\* IHL * 4 + payload length in 16 bits, the checksum accumulator in 32 bits),
\* with no overflow, wrap-around or truncation of the options word count or
\* the payload length.
C24_SerializationNeverFails ==
    ip_ret.op = "to_bytes" =>
        LET W == RefIpv4OptionWords(ip_ret.pre.options)
            P == Len(ip_ret.pre.payload)
        IN  /\ ip_ret.kind = "Bytes"
            /\ Ipv4Options_words_needed(ip_ret.pre.options) = W
            /\ 5 + W \in 0..255
            /\ (5 + W) * 4 + P \in 0..65535
            /\ Ipv4Packet_calculate_header_checksum(ip, overflow_checks).ok

\* C24 where the exact values fit: with 5 + W <= 255 and (5 + W) * 4 + P <=
\* 65535 the call completes, nothing is truncated and the accumulator stays
\* in 32 bits.
C24_CompletesInRange ==
    ip_ret.op = "to_bytes" =>
        LET W == RefIpv4OptionWords(ip_ret.pre.options)
            P == Len(ip_ret.pre.payload)
        IN  (5 + W <= 255 /\ (5 + W) * 4 + P <= 65535) =>
                /\ ip_ret.kind = "Bytes"
                /\ Ipv4Options_words_needed(ip_ret.pre.options) = W
                /\ Ipv4Packet_calculate_header_checksum(ip, overflow_checks).ok

(***************************************************************************)
(* Checksums computed directly                                             *)
(***************************************************************************)
\* the bytes a direct checksum call sums after the pseudo-header: the header
\* as it stands with bytes 16..17 zeroed, the options and the payload
RefTcpSummedSegment(pkt) ==
    [RefTcpHeaderBytes(pkt.header) EXCEPT ![17] = 0, ![18] = 0]
    \o RefTcpEncoded(pkt.options)
    \o pkt.payload

\* the checksum of a pseudo-header carrying segment length n, followed by the
\* summed segment, for the address family of the call
RefTcpChecksumWithLength(n) ==
    IF tcp_ret.op = "calculate_checksum_ipv4"
    THEN RefChecksum(tcp_ret.args[1] \o tcp_ret.args[2]
                     \o <<0, 6>> \o <<n \div 256, n % 256>>
                     \o RefTcpSummedSegment(tcp))
    ELSE RefChecksum(tcp_ret.args[1] \o tcp_ret.args[2]
                     \o <<0, 0, n \div 256, n % 256>> \o <<0, 0, 0, 6>>
                     \o RefTcpSummedSegment(tcp))

TcpChecksummed ==
    /\ tcp_ret.op \in {"calculate_checksum_ipv4", "calculate_checksum_ipv6"}
    /\ tcp_ret.kind = "Value"

\* C25: calculate_checksum_ipv4 and calculate_checksum_ipv6, called directly
\* on a packet in any state (also after options were added with no
\* update_data_offset since), use as the pseudo-header segment length the
\* real length of the segment they sum: 20 + encoded options length +
\* payload length.
C25_RealSegmentLength ==
    TcpChecksummed =>
        tcp_ret.val = RefTcpChecksumWithLength(Len(RefTcpSummedSegment(tcp)))

\* C25, as the code has it: the length in the pseudo-header is
\* header.data_offset * 4 + payload length, whatever the options are.
C25_LengthFromDataOffset ==
    TcpChecksummed =>
        tcp_ret.val = RefTcpChecksumWithLength(tcp.header.data_offset * 4
                                               + Len(tcp.payload))

(***************************************************************************)
(* Building twice                                                          *)
(***************************************************************************)
\* the packet with the fields the builder derives as new() leaves them
RefIpv4Fresh(pkt) ==
    [pkt EXCEPT !.header.ihl = 5, !.header.total_length = 0,
                !.header.header_checksum = 0]

RefTcpFresh(pkt) == [pkt EXCEPT !.header.data_offset = 5, !.header.checksum = 0]

\* C26: building is idempotent: a second to_bytes (to_bytes_ipv4 /
\* to_bytes_ipv6 with the same addresses) right after a first, with no
\* mutation in between, returns the same bytes and leaves the packet as the
\* first call left it; and the output is the one of a packet whose IHL, total
\* length, data offset and checksum fields were never assigned.
C26_BuildingIsIdempotent ==
    /\ [][(IpBuilt /\ ip_ret'.op = "to_bytes") =>
              /\ ip_ret'.kind = "Bytes"
              /\ ip_ret'.val = ip_ret.val
              /\ ip' = ip]_vars
    /\ [][((TcpBuilt4 \/ TcpBuilt6) /\ tcp_ret'.op = tcp_ret.op
                                    /\ tcp_ret'.args = tcp_ret.args) =>
              /\ tcp_ret'.kind = "Bytes"
              /\ tcp_ret'.val = tcp_ret.val
              /\ tcp' = tcp]_vars
    /\ [](IpBuilt =>
              ip_ret.val = Ipv4Packet_to_bytes(RefIpv4Fresh(ip_ret.pre),
                                               overflow_checks).val)
    /\ [](TcpBuilt4 =>
              tcp_ret.val = TcpPacket_to_bytes_ipv4(RefTcpFresh(tcp_ret.pre),
                                                    tcp_ret.args[1], tcp_ret.args[2],
                                                    overflow_checks).val)
    /\ [](TcpBuilt6 =>
              tcp_ret.val = TcpPacket_to_bytes_ipv6(RefTcpFresh(tcp_ret.pre),
                                                    tcp_ret.args[1], tcp_ret.args[2],
                                                    overflow_checks).val)

\* a second to_bytes in a row: the packet it was called on is the packet the
\* first call left, with the derived fields already set
C26_Witness ==
    /\ IpBuilt
    /\ ip_ret.pre = ip
    /\ Len(ip.options) = 5
    /\ ip.header.ihl = 7
    /\ ip.header.time_to_live = 1

(***************************************************************************)
(* Verifying the emitted checksums                                         *)
(***************************************************************************)
\* the one's complement sum of all the 16-bit words of bytes
RefVerify(bytes) == RefOnesSum(bytes, 1, (Len(bytes) + 1) \div 2)

\* the IPv4 pseudo-header a receiver of the emitted segment forms
RefPseudoHeaderIpv4(src_ip, dst_ip, segment) ==
    src_ip \o dst_ip \o <<0, 6>> \o <<Len(segment) \div 256, Len(segment) % 256>>

\* C27: the emitted checksum verifies: for every Ipv4Packet the one's
\* complement sum of all 16-bit words of the emitted header and options bytes
\* (20 + encoded options length, checksum field included) is 0xFFFF, and for
\* every TcpPacket built by to_bytes_ipv4 the same sum over the pseudo-header
\* followed by the whole emitted segment is 0xFFFF.
C27_ChecksumVerifies ==
    /\ IpBuilt =>
         RefVerify(SubSeq(ip_ret.val, 1, 20 + Len(RefIpv4Encoded(ip.options)))) = 65535
    /\ TcpBuilt4 =>
         RefVerify(RefPseudoHeaderIpv4(tcp_ret.args[1], tcp_ret.args[2], tcp_ret.val)
                   \o tcp_ret.val) = 65535

\* C27 where the header length in words fits 8 bits: every emitted IPv4
\* header verifies, and every emitted TCP segment whose 5 + W is at most 255
\* verifies.
C27_VerifiesInRange ==
    /\ IpBuilt =>
         RefVerify(SubSeq(ip_ret.val, 1, 20 + Len(RefIpv4Encoded(ip.options)))) = 65535
    /\ (TcpBuilt4 /\ 5 + Len(RefTcpEncoded(tcp.options)) \div 4 <= 255) =>
         RefVerify(RefPseudoHeaderIpv4(tcp_ret.args[1], tcp_ret.args[2], tcp_ret.val)
                   \o tcp_ret.val) = 65535

(***************************************************************************)
(* The emitted IPv4 packet read back by its own length fields              *)
(***************************************************************************)
\* C28: the bytes returned by Ipv4Packet::to_bytes describe themselves, for
\* every options list and payload: the low nibble of byte 0 times 4 is the
\* offset at which the payload starts (20 + encoded options length), and the
\* big-endian value of bytes 2..3 is the length of the returned sequence.
C28_DescribesItself ==
    IpBuilt =>
        /\ (ip_ret.val[1] % 16) * 4 = 20 + Len(RefIpv4Encoded(ip.options))
        /\ ip_ret.val[3] * 256 + ip_ret.val[4] = Len(ip_ret.val)

\* C28 where the header length fits the 4-bit field: with 5 + W <= 15 the two
\* length fields describe the output, and the payload sits at the offset the
\* IHL nibble gives.
C28_InRange ==
    (IpBuilt /\ 5 + RefIpv4OptionWords(ip.options) <= 15) =>
        /\ (ip_ret.val[1] % 16) * 4 = 20 + Len(RefIpv4Encoded(ip.options))
        /\ ip_ret.val[3] * 256 + ip_ret.val[4] = Len(ip_ret.val)
        /\ SubSeq(ip_ret.val, (ip_ret.val[1] % 16) * 4 + 1, Len(ip_ret.val)) = ip.payload

(***************************************************************************)
(* Options round trips                                                     *)
(***************************************************************************)
\* the positions of list at which an end-of-list option stands
RefTcpEndPositions(list) == {i \in 1..Len(list) : list[i][1] = "EndOfOptionList"}

RefIpv4EndPositions(list) == {i \in 1..Len(list) : list[i] = "EndOfOptionsList"}

\* the least element of a non-empty set of positions
RefFirstOf(positions) == CHOOSE i \in positions : \A j \in positions : i <= j

\* C29: for every TCP options list L with no EndOfOptionList,
\* TcpOptions::from_bytes(L.to_bytes()) is Ok with a list equal to L (zero
\* bytes inside an MSS value do not end the scan); for a list that contains
\* an EndOfOptionList the decoded list is L cut just before its first
\* EndOfOptionList.
C29_TcpOptionsRoundTrip ==
    (codec.type = "TcpRoundTrip" /\ codec.step = "decoded") =>
        LET L == codec.options
            ends == RefTcpEndPositions(L)
        IN  /\ codec.ret.kind = "Ok"
            /\ ends = {} => codec.ret.val = L
            /\ ends # {} => codec.ret.val = SubSeq(L, 1, RefFirstOf(ends) - 1)

\* a list without EndOfOptionList, with padding and with MSS values holding
\* zero bytes
C29_Witness ==
    /\ codec.type = "TcpRoundTrip"
    /\ codec.step = "decoded"
    /\ codec.options = <<(<<"MaximumSegmentSize", 0>>), (<<"NoOperation">>),
                         (<<"MaximumSegmentSize", 256>>)>>
    /\ codec.bytes = <<2, 4, 0, 0, 1, 2, 4, 1, 0, 0, 0, 0>>
    /\ codec.ret.kind = "Ok"
    /\ codec.ret.val = codec.options

\* C30: for every IPv4 options list L, Ipv4Options::from_bytes(L.to_bytes())
\* is Ok, and the result equals L exactly when L is empty, or L's only
\* EndOfOptionsList is its last element, or L has no EndOfOptionsList and a
\* length that is a multiple of 4; in every other case the result is L cut
\* after its first EndOfOptionsList, or L with one EndOfOptionsList appended
\* when padding was added to a list without one.
C30_Ipv4OptionsRoundTrip ==
    (codec.type = "Ipv4RoundTrip" /\ codec.step = "decoded") =>
        LET L == codec.options
            ends == RefIpv4EndPositions(L)
            same == \/ L = <<>>
                    \/ ends = {Len(L)}
                    \/ ends = {} /\ Len(L) % 4 = 0
        IN  /\ codec.ret.kind = "Ok"
            /\ (codec.ret.val = L) <=> same
            /\ (~same /\ ends # {}) => codec.ret.val = SubSeq(L, 1, RefFirstOf(ends))
            /\ (~same /\ ends = {}) => codec.ret.val = Append(L, "EndOfOptionsList")

\* a list of five options without EndOfOptionsList: three bytes of padding,
\* of which the first comes back as an option
C30_Witness ==
    /\ codec.type = "Ipv4RoundTrip"
    /\ codec.step = "decoded"
    /\ codec.options = [i \in 1..5 |-> "NoOperation"]
    /\ Len(codec.bytes) = 8
    /\ codec.ret.kind = "Ok"
    /\ codec.ret.val = Append(codec.options, "EndOfOptionsList")

====
